---- MODULE Spec2Model ----
(***************************************************************************)
(* Model of the core of sky-safe-tx-decoder: the version-aware EIP-712     *)
(* hash calculator, the MultiSend packed-transaction decoder and the       *)
(* decoded-data verifier.                                                  *)
(*                                                                         *)
(* Byte strings that are hashed are sequences of chunks:                   *)
(*   <<"b", n>>  one literal byte n                                        *)
(*   <<"w", n>>  one 32-byte ABI word holding the integer n (an address,   *)
(*               a uint256 or a uint8, all left-padded to 32 bytes)        *)
(*   <<"c", k>>  one 32-byte word holding the type-hash constant named k   *)
(*   <<"h", p>>  the 32-byte keccak256 digest of the byte string p         *)
(* keccak256 is modelled as a collision-free function of its input.        *)
(* Strings are sequences of one-character strings.                         *)
(***************************************************************************)
EXTENDS Integers, Sequences, FiniteSets, TLC

VARIABLES
    chainId, safeAddress, txData, version,   \* inputs of the hash calculator
    vBase, vTag,                             \* how `version` was written: base (string and numeric reading) and suffix
    hashOp, hashResult,                      \* last hash operation applied and what it returned
    cmpResult,                               \* what compareVersions returned
    msCalls, msKind, msCut,                  \* how the MultiSend calldata was built
    msData,                                  \* input of decodeMultiSend / isMultiSend
    msOp, msResult, msIs,                    \* operation applied and what it returned
    verRawKind, verRef,                      \* how the raw data was built
    verRaw, verDecoded,                      \* inputs of verifyDecodedData
    verOp, verResult,                        \* operation applied and what it returned
    verSpellings,                            \* what it returned for other spellings of the same raw data
    secTree, secSpelling,                    \* how the transaction's call data was built
    secTx,                                   \* the transaction given to the security checks
    secOp, secResult,                        \* check applied and what it returned
    cmdMode, cmdApiKind,                     \* how the verify command got its transaction and which hash came with it
    cmdVersion, cmdApiHash,                  \* version and safeTxHash the verify command works with
    cmdPc, cmdHash, cmdOutput,               \* position of the verify command, what it calculated and what it printed
    regDecoders,                             \* DecoderRegistry.decoders: key -> decoder
    regLog,                                  \* the decoders given to register, in order
    regOp, regArgs, regResult,               \* registry method called, its arguments and what it returned
    uwSeed, uwWraps,                         \* how that call data was built: what it started from and how many batches were put around it
    uwData,                                  \* call data whose batches are being unwound
    uwStack,                                 \* calls of checkTransactionData still to be made: data and depth
    uwFrame, uwPacked, uwOffset, uwTxs,      \* the call whose batch is being read, the blob, the read offset, the records read
    uwPc, uwFound, uwDetections,             \* position of the unwinding, the owner modifications and the module/guard operations found so far
    rbMaxRetries, rbInitialDelay,            \* arguments of retryWithBackoff
    rbHasOnRetry,                            \* whether an onRetry callback was given
    rbAttempt, rbLastError, rbPc,            \* its loop counter, its lastError and its position
    rbLog,                                   \* how each call of fn settled, in order
    rbNotified, rbWaits,                     \* the onRetry calls made and the delays waited, in order
    rbOutcome,                               \* how retryWithBackoff settled
    taRoute,                                 \* route parameters of the TransactionAnalysis view: nonce and safeTxHash
    taRuns,                                  \* the fetchAndAnalyze runs started, in order: the parameters each closed over and its position
    taAllTransactions, taTransaction,        \* React state of the view
    taVersion, taHashes, taSecurity,
    taCustomDecoded, taApiDecodedVerification,
    taMultiSendVerification, taMultiSendTxs,
    taLoading, taLoadingMessage, taError

hashVars == <<chainId, safeAddress, txData, version, vBase, vTag, hashOp, hashResult, cmpResult>>

msVars == <<msCalls, msKind, msCut, msData, msOp, msResult, msIs>>

verVars == <<verRawKind, verRef, verRaw, verDecoded, verOp, verResult, verSpellings>>

secVars == <<secTree, secSpelling, secTx, secOp, secResult>>

coreVars == <<hashVars, msVars, verVars, secVars>>

cmdVars == <<cmdMode, cmdApiKind, cmdVersion, cmdApiHash, cmdPc, cmdHash, cmdOutput>>

regVars == <<regDecoders, regLog, regOp, regArgs, regResult>>

uwVars == <<uwSeed, uwWraps, uwData, uwStack, uwFrame, uwPacked, uwOffset, uwTxs, uwPc, uwFound, uwDetections>>

appVars == <<cmdVars, regVars, uwVars>>

rbVars == <<rbMaxRetries, rbInitialDelay, rbHasOnRetry, rbAttempt, rbLastError, rbPc, rbLog, rbNotified, rbWaits, rbOutcome>>

taVars == <<taRoute, taRuns, taAllTransactions, taTransaction, taVersion, taHashes, taSecurity, taCustomDecoded, taApiDecodedVerification, taMultiSendVerification, taMultiSendTxs, taLoading, taLoadingMessage, taError>>

uiVars == <<rbVars, taVars>>

vars == <<coreVars, appVars, uiVars>>

(***************************************************************************)
(* Bounds of the explored inputs                                           *)
(***************************************************************************)
MaxMajor == 1
MaxMinor == 3
MaxPatch == 1
MaxCalls == 2
MaxPayload == 2
MaxNesting == 2
MaxRegisters == 2

\* largest maxRetries given to retryWithBackoff
MaxRetries == 3

\* most fetchAndAnalyze runs started in one visit of the view
MaxRuns == 3

\* depth of the deepest chain of nested batches explored
DeepNesting == 17

(***************************************************************************)
(* JavaScript string primitives                                            *)
(***************************************************************************)
Digits == <<"0", "1", "2", "3", "4", "5", "6", "7", "8", "9">>

IsDigit(c) == \E i \in 1..10 : Digits[i] = c

DigitVal(c) == (CHOOSE i \in 1..10 : Digits[i] = c) - 1

\* Number.prototype.toString for a natural number
RECURSIVE NatToStr(_)
NatToStr(n) == IF n < 10 THEN <<Digits[n + 1]>>
               ELSE NatToStr(n \div 10) \o <<Digits[(n % 10) + 1]>>

\* index of the first occurrence of sep in s, 0 when absent
FirstIndex(s, sep) ==
    IF \E i \in 1..Len(s) : s[i] = sep
    THEN CHOOSE i \in 1..Len(s) : s[i] = sep /\ \A j \in 1..(i - 1) : s[j] # sep
    ELSE 0

\* String.prototype.split with a one-character separator
RECURSIVE Split(_, _)
Split(s, sep) ==
    LET i == FirstIndex(s, sep)
    IN IF i = 0 THEN <<s>>
       ELSE <<SubSeq(s, 1, i - 1)>> \o Split(SubSeq(s, i + 1, Len(s)), sep)

NaN == -1

RECURSIVE DigitsToNat(_)
DigitsToNat(s) == IF s = <<>> THEN 0
                  ELSE 10 * DigitsToNat(SubSeq(s, 1, Len(s) - 1)) + DigitVal(s[Len(s)])

AllDigits(s) == \A i \in 1..Len(s) : IsDigit(s[i])

\* Number(string) on the strings a version component can be:
\* '' is 0, decimal digits (with an optional leading '+') are their value,
\* anything else is NaN
Number(s) ==
    IF s = <<>> THEN 0
    ELSE IF AllDigits(s) THEN DigitsToNat(s)
    ELSE IF s[1] = "+" /\ Len(s) > 1 /\ AllDigits(Tail(s)) THEN DigitsToNat(Tail(s))
    ELSE NaN

\* parts[i] || 0 : undefined (index out of range), NaN and 0 all give 0
PartOrZero(parts, i) ==
    IF i > Len(parts) THEN 0
    ELSE IF parts[i] = NaN THEN 0
    ELSE parts[i]

Max(a, b) == IF a >= b THEN a ELSE b

(***************************************************************************)
(* hash/constants.ts                                                       *)
(***************************************************************************)
DOMAIN_SEPARATOR_TYPEHASH == <<"c", "DOMAIN_SEPARATOR_TYPEHASH">>
DOMAIN_SEPARATOR_TYPEHASH_OLD == <<"c", "DOMAIN_SEPARATOR_TYPEHASH_OLD">>
SAFE_TX_TYPEHASH == <<"c", "SAFE_TX_TYPEHASH">>
SAFE_TX_TYPEHASH_OLD == <<"c", "SAFE_TX_TYPEHASH_OLD">>
MIN_SAFE_VERSION == <<"0", ".", "1", ".", "0">>

(***************************************************************************)
(* hash/version.ts                                                         *)
(***************************************************************************)
getVersion(v) == Split(v, "+")[1]

RECURSIVE compareFrom(_, _, _)
compareFrom(parts1, parts2, i) ==
    IF i > Max(Len(parts1), Len(parts2)) THEN 0
    ELSE LET part1 == PartOrZero(parts1, i)
             part2 == PartOrZero(parts2, i)
         IN IF part1 > part2 THEN 1
            ELSE IF part1 < part2 THEN -1
            ELSE compareFrom(parts1, parts2, i + 1)

compareVersions(v1, v2) ==
    LET s1 == Split(v1, ".")
        s2 == Split(v2, ".")
        parts1 == [i \in 1..Len(s1) |-> Number(s1[i])]
        parts2 == [i \in 1..Len(s2) |-> Number(s2[i])]
    IN compareFrom(parts1, parts2, 1)

isVersionGte(v1, v2) == compareVersions(v1, v2) >= 0

isVersionLte(v1, v2) == compareVersions(v1, v2) <= 0

isVersionLt(v1, v2) == compareVersions(v1, v2) < 0

ErrNoContract == "No Safe multisig contract found for the specified network"
ErrNotSupported == "Safe multisig version is not supported"
NoError == "ok"

\* validateVersion rejecting the floor version itself
validateVersion_floorExcluded(v) ==
    IF v = <<>> THEN [kind |-> ErrNoContract, clean |-> <<>>]
    ELSE LET cleanVersion == getVersion(v)
         IN IF isVersionLte(cleanVersion, MIN_SAFE_VERSION)
            THEN [kind |-> ErrNotSupported, clean |-> cleanVersion]
            ELSE [kind |-> NoError, clean |-> <<>>]

\* validateVersion: the error it throws, NoError when it returns
validateVersion(v) ==
    IF v = <<>> THEN [kind |-> ErrNoContract, clean |-> <<>>]
    ELSE LET cleanVersion == getVersion(v)
         IN IF ~isVersionGte(cleanVersion, MIN_SAFE_VERSION)
            THEN [kind |-> ErrNotSupported, clean |-> cleanVersion]
            ELSE [kind |-> NoError, clean |-> <<>>]

(***************************************************************************)
(* viem primitives used by the hash calculator                             *)
(***************************************************************************)
Word(n) == <<"w", n>>
Byte(n) == <<"b", n>>

keccak256(bytes) == <<"h", bytes>>

\* encodeAbiParameters on static types: one 32-byte word per value, in order
encodeAbiParameters(words) == words

\* concat of hex strings
RECURSIVE concat(_)
concat(parts) == IF parts = <<>> THEN <<>> ELSE Head(parts) \o concat(Tail(parts))

(***************************************************************************)
(* hash/domain.ts                                                          *)
(***************************************************************************)
\* calculateDomainHash with the legacy branch taken below 1.3.0
calculateDomainHash_lt130(cid, safe, v) ==
    LET cleanVersion == getVersion(v)
    IN IF isVersionLt(cleanVersion, <<"1", ".", "3", ".", "0">>)
       THEN keccak256(encodeAbiParameters(<<DOMAIN_SEPARATOR_TYPEHASH_OLD, Word(safe)>>))
       ELSE keccak256(encodeAbiParameters(<<DOMAIN_SEPARATOR_TYPEHASH, Word(cid), Word(safe)>>))

\* calculateDomainHash with the legacy branch taken up to and including 1.3.0
calculateDomainHash_lte130(cid, safe, v) ==
    LET cleanVersion == getVersion(v)
    IN IF isVersionLte(cleanVersion, <<"1", ".", "3", ".", "0">>)
       THEN keccak256(encodeAbiParameters(<<DOMAIN_SEPARATOR_TYPEHASH_OLD, Word(safe)>>))
       ELSE keccak256(encodeAbiParameters(<<DOMAIN_SEPARATOR_TYPEHASH, Word(cid), Word(safe)>>))

\* calculateDomainHash deciding on the version as passed, suffix included
calculateDomainHash_rawVersion(cid, safe, v) ==
    IF isVersionLte(v, <<"1", ".", "2", ".", "0">>)
    THEN keccak256(encodeAbiParameters(<<DOMAIN_SEPARATOR_TYPEHASH_OLD, Word(safe)>>))
    ELSE keccak256(encodeAbiParameters(<<DOMAIN_SEPARATOR_TYPEHASH, Word(cid), Word(safe)>>))

calculateDomainHash(cid, safe, v) ==
    LET cleanVersion == getVersion(v)
    IN IF isVersionLte(cleanVersion, <<"1", ".", "2", ".", "0">>)
       THEN keccak256(encodeAbiParameters(<<DOMAIN_SEPARATOR_TYPEHASH_OLD, Word(safe)>>))
       ELSE keccak256(encodeAbiParameters(<<DOMAIN_SEPARATOR_TYPEHASH, Word(cid), Word(safe)>>))

(***************************************************************************)
(* hash/message.ts                                                         *)
(***************************************************************************)
\* calculateMessageHash with safeTxGas and baseGas encoded in the other order
calculateMessageHash_gasSwapped(tx, v) ==
    LET cleanVersion == getVersion(v)
        dataHash == keccak256(tx.data)
        safeTxTypeHash == IF isVersionLt(cleanVersion, <<"1", ".", "0", ".", "0">>)
                          THEN SAFE_TX_TYPEHASH_OLD
                          ELSE SAFE_TX_TYPEHASH
    IN keccak256(encodeAbiParameters(<<
           safeTxTypeHash,
           Word(tx.to),
           Word(tx.value),
           dataHash,
           Word(tx.operation),
           Word(tx.baseGas),
           Word(tx.safeTxGas),
           Word(tx.gasPrice),
           Word(tx.gasToken),
           Word(tx.refundReceiver),
           Word(tx.nonce)>>))

calculateMessageHash(tx, v) ==
    LET cleanVersion == getVersion(v)
        dataHash == keccak256(tx.data)
        safeTxTypeHash == IF isVersionLt(cleanVersion, <<"1", ".", "0", ".", "0">>)
                          THEN SAFE_TX_TYPEHASH_OLD
                          ELSE SAFE_TX_TYPEHASH
    IN keccak256(encodeAbiParameters(<<
           safeTxTypeHash,
           Word(tx.to),
           Word(tx.value),
           dataHash,
           Word(tx.operation),
           Word(tx.safeTxGas),
           Word(tx.baseGas),
           Word(tx.gasPrice),
           Word(tx.gasToken),
           Word(tx.refundReceiver),
           Word(tx.nonce)>>))

(***************************************************************************)
(* hash/calculator.ts                                                      *)
(***************************************************************************)
NoHash == <<"none", <<>>>>

OkError == [kind |-> NoError, clean |-> <<>>]

Threw(err) == [threw |-> TRUE, error |-> err,
               domainHash |-> NoHash, messageHash |-> NoHash, safeTxHash |-> NoHash]

\* calculateSafeTxHash concatenating messageHash before domainHash
calculateSafeTxHash_swapped(cid, safe, tx, v) ==
    LET err == validateVersion(v)
    IN IF err.kind # NoError THEN Threw(err)
       ELSE LET domainHash == calculateDomainHash(cid, safe, v)
                messageHash == calculateMessageHash(tx, v)
                safeTxHash == keccak256(concat(<<
                                  <<Byte(25), Byte(1)>>,
                                  <<messageHash>>,
                                  <<domainHash>>>>))
            IN [threw |-> FALSE, error |-> OkError,
                domainHash |-> domainHash,
                messageHash |-> messageHash,
                safeTxHash |-> safeTxHash]

calculateSafeTxHash(cid, safe, tx, v) ==
    LET err == validateVersion(v)
    IN IF err.kind # NoError THEN Threw(err)
       ELSE LET domainHash == calculateDomainHash(cid, safe, v)
                messageHash == calculateMessageHash(tx, v)
                safeTxHash == keccak256(concat(<<
                                  <<Byte(25), Byte(1)>>,
                                  <<domainHash>>,
                                  <<messageHash>>>>))
            IN [threw |-> FALSE, error |-> OkError,
                domainHash |-> domainHash,
                messageHash |-> messageHash,
                safeTxHash |-> safeTxHash]

(***************************************************************************)
(* Inputs of the hash calculator                                           *)
(***************************************************************************)
ZERO_ADDRESS == 0

ChainIds == {1, 11155111}

SafeAddresses == {4660, 22136}

\* version strings: a dotted triple with an optional '+<tag>', and the
\* degenerate spellings a caller can pass; num is the numeric reading of
\* str (missing components are 0)
Triples == (0..MaxMajor) \X (0..MaxMinor) \X (0..MaxPatch)

TripleStr(t) == NatToStr(t[1]) \o <<".">> \o NatToStr(t[2]) \o <<".">> \o NatToStr(t[3])

ValidBases == {[str |-> TripleStr(t), num |-> t, valid |-> TRUE] : t \in Triples}

OddBases == {[str |-> <<>>, num |-> <<0, 0, 0>>, valid |-> FALSE],
             [str |-> <<"1", ".", "3">>, num |-> <<1, 3, 0>>, valid |-> FALSE],
             [str |-> <<"1", "0", ".", "0", ".", "0">>, num |-> <<10, 0, 0>>, valid |-> TRUE],
             [str |-> <<"1", ".", "1", "0", ".", "0">>, num |-> <<1, 10, 0>>, valid |-> TRUE]}

Bases == ValidBases \cup OddBases

Tags == {<<>>, <<"+", "L", "2">>, <<"+", "1">>}

TxRecords ==
    [to : {4660}, value : {0, 1}, data : {<<>>, <<Byte(1)>>, <<Byte(1), Byte(2)>>},
     operation : {0, 1}, safeTxGas : {0}, baseGas : {0, 7}, gasPrice : {0},
     gasToken : {ZERO_ADDRESS}, refundReceiver : {ZERO_ADDRESS}, nonce : {0, 434}]

NoResult == [threw |-> FALSE, error |-> [kind |-> "pending", clean |-> <<>>],
             domainHash |-> NoHash, messageHash |-> NoHash, safeTxHash |-> NoHash]

HashInit ==
    /\ chainId \in ChainIds
    /\ safeAddress \in SafeAddresses
    /\ txData \in TxRecords
    /\ vBase \in Bases
    /\ vTag \in Tags
    /\ version = vBase.str \o vTag
    /\ hashOp = "none"
    /\ hashResult = NoResult
    /\ cmpResult = 0

HashInputsUnchanged ==
    UNCHANGED <<chainId, safeAddress, txData, version, vBase, vTag, msVars, verVars, secVars, appVars, uiVars>>

CallCalculateSafeTxHash ==
    /\ hashOp = "none"
    /\ hashOp' = "calculateSafeTxHash"
    /\ hashResult' = calculateSafeTxHash(chainId, safeAddress, txData, version)
    /\ UNCHANGED cmpResult
    /\ HashInputsUnchanged

CallCalculateDomainHash ==
    /\ hashOp = "none"
    /\ hashOp' = "calculateDomainHash"
    /\ hashResult' = [NoResult EXCEPT !.error = OkError,
                          !.domainHash = calculateDomainHash(chainId, safeAddress, version)]
    /\ UNCHANGED cmpResult
    /\ HashInputsUnchanged

CallCalculateMessageHash ==
    /\ hashOp = "none"
    /\ hashOp' = "calculateMessageHash"
    /\ hashResult' = [NoResult EXCEPT !.error = OkError,
                          !.messageHash = calculateMessageHash(txData, version)]
    /\ UNCHANGED cmpResult
    /\ HashInputsUnchanged

\* compareVersions(v, getVersion(v))
CallCompareVersions ==
    /\ hashOp = "none"
    /\ hashOp' = "compareVersions"
    /\ cmpResult' = compareVersions(version, getVersion(version))
    /\ UNCHANGED hashResult
    /\ HashInputsUnchanged

HashNext ==
    \/ CallCalculateSafeTxHash
    \/ CallCalculateDomainHash
    \/ CallCalculateMessageHash
    \/ CallCompareVersions

\* the hash calculator when another component is exercised
HashIdle ==
    /\ chainId = 1
    /\ safeAddress = 4660
    /\ txData = CHOOSE t \in TxRecords : TRUE
    /\ vBase = CHOOSE b \in Bases : b.num = <<1, 3, 0>>
    /\ vTag = <<>>
    /\ version = vBase.str
    /\ hashOp = "none"
    /\ hashResult = NoResult
    /\ cmpResult = 0

(***************************************************************************)
(* Hex strings of the MultiSend decoder                                    *)
(*                                                                         *)
(* A hex string is the sequence of its characters after the '0x' prefix:   *)
(* 0..9 are '0'..'9', 10..15 are 'a'..'f' and 16..21 are 'A'..'F'.         *)
(* Offsets are counted after the prefix, so the decoder's `offset = 2`     *)
(* is offset 0 here.                                                       *)
(***************************************************************************)
HexVal(c) == IF c >= 16 THEN c - 6 ELSE c

\* String.prototype.toLowerCase on hex characters; also bytesToHex(hexToBytes(s))
ToLower(s) == [i \in 1..Len(s) |-> HexVal(s[i])]

Min(a, b) == IF a <= b THEN a ELSE b

\* String.prototype.slice(a, b) with a >= 0; a NaN end is read as 0
JsSlice(s, a, b) ==
    IF a = NaN \/ b = NaN THEN <<>>
    ELSE SubSeq(s, a + 1, Min(b, Len(s)))

\* numbers at or above Huge are not distinguished: every buffer explored is
\* far shorter, so any such offset or length is simply out of range
Huge == 16777216

\* the hex digits of s from its first non-zero digit on
Significant(s) ==
    IF \E i \in 1..Len(s) : s[i] # 0
    THEN SubSeq(s, CHOOSE i \in 1..Len(s) : s[i] # 0 /\ \A j \in 1..(i - 1) : s[j] = 0, Len(s))
    ELSE <<>>

RECURSIVE SmallHexToNat(_)
SmallHexToNat(d) ==
    IF d = <<>> THEN 0
    ELSE SmallHexToNat(SubSeq(d, 1, Len(d) - 1)) * 16 + HexVal(d[Len(d)])

HexToNat(s) ==
    LET d == Significant(s)
    IN IF Len(d) > 6 THEN Huge ELSE SmallHexToNat(d)

\* parseInt(s, 16) on a string of hex digits
ParseInt16(s) == IF s = <<>> THEN NaN ELSE HexToNat(s)

\* a bigint is the sequence of its hex digits without leading zeros;
\* BigInt('0x' + s) for a non-empty string of hex digits
BigIntOfHex(s) == ToLower(Significant(s))

Zeros(n) == [i \in 1..n |-> 0]

RECURSIVE NatToHex(_)
NatToHex(n) == IF n = 0 THEN <<>> ELSE NatToHex(n \div 16) \o <<n % 16>>

\* pad(toHex(n), {size}) : left-padded to size bytes
PadHex(digits, size) == Zeros(2 * size - Len(digits)) \o digits

(***************************************************************************)
(* viem: decodeFunctionData with the one-function MULTISEND_ABI            *)
(***************************************************************************)
\* toFunctionSelector('multiSend(bytes)') = 0x8d80ff0a
MULTISEND_SELECTOR == <<8, 13, 8, 0, 15, 15, 0, 10>>

AbiThrew == [threw |-> TRUE, packed |-> <<>>]

\* decodeAbiParameters([{type: 'bytes'}], hex): cursor-based decoding of
\* one dynamic bytes argument
decodeBytesAt(bytes) ==
    LET n == Len(bytes) \div 2
        ReadWord(pos) == HexToNat(SubSeq(bytes, 2 * pos + 1, 2 * pos + 64))
    IN IF n = 0 THEN AbiThrew                         \* AbiDecodingZeroDataError
       ELSE IF n < 32 THEN AbiThrew                   \* AbiDecodingDataSizeTooSmallError
       ELSE LET offset == ReadWord(0)
            IN IF offset > n - 1 THEN AbiThrew        \* setPosition out of bounds
               ELSE IF offset + 31 > n - 1 THEN AbiThrew
               ELSE LET length == ReadWord(offset)
                    IN IF length = 0 THEN [threw |-> FALSE, packed |-> <<>>]
                       ELSE IF offset + 32 + length - 1 > n - 1 THEN AbiThrew
                       ELSE [threw |-> FALSE,
                             packed |-> SubSeq(bytes, 2 * (offset + 32) + 1,
                                               2 * (offset + 32 + length))]

\* hexToBytes(hex), written as lower-case hex characters
decodeAbiBytes(hex) == decodeBytesAt(ToLower(IF Len(hex) % 2 = 1 THEN <<0>> \o hex ELSE hex))

decodeFunctionData(data) ==
    LET signature == JsSlice(data, 0, 8)
    IN IF signature # MULTISEND_SELECTOR THEN AbiThrew   \* AbiFunctionSignatureNotFoundError
       ELSE decodeAbiBytes(JsSlice(data, 8, Len(data)))

(***************************************************************************)
(* security/multisend-decoder.ts                                           *)
(***************************************************************************)
LoopThrew == [threw |-> TRUE, txs |-> <<>>]

\* transactions.push(tx) before the rest of the loop, which may throw
LoopPush(tx, rest) ==
    IF rest.threw THEN LoopThrew ELSE [threw |-> FALSE, txs |-> <<tx>> \o rest.txs]

\* the loop advancing by dataLength characters instead of dataLength bytes
RECURSIVE decodeLoop_lengthInChars(_, _)
decodeLoop_lengthInChars(packedData, offset) ==
    IF offset = NaN \/ ~(offset < Len(packedData)) THEN [threw |-> FALSE, txs |-> <<>>]
    ELSE LET operation == ParseInt16(JsSlice(packedData, offset, offset + 2))
             to == JsSlice(packedData, offset + 2, offset + 42)
             valueHex == JsSlice(packedData, offset + 42, offset + 106)
             dataLengthHex == JsSlice(packedData, offset + 106, offset + 170)
             dataLength == ParseInt16(dataLengthHex)
             end == IF dataLength = NaN THEN NaN ELSE offset + 170 + dataLength
             txBytes == JsSlice(packedData, offset + 170, end)
         IN IF valueHex = <<>> THEN LoopThrew
            ELSE LoopPush([operation |-> operation,
                           to |-> to,
                           value |-> BigIntOfHex(valueHex),
                           data |-> txBytes],
                          decodeLoop_lengthInChars(packedData, end))

\* the while loop of decodeMultiSend from `offset` on
RECURSIVE decodeLoop(_, _)
decodeLoop(packedData, offset) ==
    IF offset = NaN \/ ~(offset < Len(packedData)) THEN [threw |-> FALSE, txs |-> <<>>]
    ELSE LET operation == ParseInt16(JsSlice(packedData, offset, offset + 2))
             to == JsSlice(packedData, offset + 2, offset + 42)
             valueHex == JsSlice(packedData, offset + 42, offset + 106)
             dataLengthHex == JsSlice(packedData, offset + 106, offset + 170)
             dataLength == ParseInt16(dataLengthHex)
             end == IF dataLength = NaN THEN NaN ELSE offset + 170 + dataLength * 2
             txBytes == JsSlice(packedData, offset + 170, end)
         IN IF valueHex = <<>> THEN LoopThrew          \* BigInt('0x') is a SyntaxError
            ELSE LoopPush([operation |-> operation,
                           to |-> to,
                           value |-> BigIntOfHex(valueHex),
                           data |-> txBytes],
                          decodeLoop(packedData, end))

\* what a call of decodeMultiSend does: return null, return a list, or
\* let an exception escape
NullResult == [isNull |-> TRUE, txs |-> <<>>, threw |-> FALSE]

\* the catch block: null when the loop threw
ListOrNull(r) ==
    IF r.threw THEN NullResult ELSE [isNull |-> FALSE, txs |-> r.txs, threw |-> FALSE]

\* the try block after decodeFunctionData
decodePacked(decoded) ==
    IF decoded.threw THEN NullResult ELSE ListOrNull(decodeLoop(decoded.packed, 0))

decodeMultiSend(data) == decodePacked(decodeFunctionData(data))

\* isMultiSend looking at the selector only
isMultiSend_selectorOnly(data) == JsSlice(data, 0, 8) = MULTISEND_SELECTOR

isMultiSend(data) == ~decodeFunctionData(data).threw

(***************************************************************************)
(* Building MultiSend calldata, as the security tests do                   *)
(***************************************************************************)
\* concat([operation, to, value, dataLength, data]) of one sub-call
PackTransaction(c) ==
    PadHex(NatToHex(c.operation), 1) \o c.to \o PadHex(c.value, 32)
        \o PadHex(NatToHex(Len(c.data) \div 2), 32) \o c.data

RECURSIVE PackTransactions(_)
PackTransactions(cs) ==
    IF cs = <<>> THEN <<>> ELSE PackTransaction(Head(cs)) \o PackTransactions(Tail(cs))

\* encodeFunctionData of multiSend(bytes): selector, offset word 0x20,
\* length word, the blob right-padded to a multiple of 32 bytes
EncodeMultiSend(blob) ==
    LET size == Len(blob) \div 2
        padding == (32 - (size % 32)) % 32
    IN MULTISEND_SELECTOR \o PadHex(NatToHex(32), 32) \o PadHex(NatToHex(size), 32)
           \o blob \o Zeros(2 * padding)

(***************************************************************************)
(* Inputs of the MultiSend decoder                                         *)
(***************************************************************************)
ToA == <<15, 6, 5, 4, 7, 5, 14, 7, 4, 18, 1, 20, 13, 6, 13, 0, 0, 4, 13, 5, 2, 4, 0, 11, 0, 6, 20, 3, 0, 8, 8, 7, 2, 4, 13, 21, 19, 16, 5, 13>>
ToB == <<1, 2, 3, 4, 5, 6, 7, 8, 9, 0, 1, 2, 3, 4, 5, 6, 7, 8, 9, 0, 1, 2, 3, 4, 5, 6, 7, 8, 9, 0, 1, 2, 3, 4, 5, 6, 7, 8, 9, 0>>
OneEther == <<13, 14, 0, 11, 6, 11, 3, 10, 7, 6, 4, 0, 0, 0, 0>>
PayloadPattern == <<10, 9, 0, 5, 9, 12, 11, 11, 0, 0, 0, 0, 0, 0, 0, 0, 0, 0, 0, 0, 0, 0, 0, 0, 0, 0, 0, 0, 0, 0, 0, 0, 16, 0, 11, 8, 6, 9, 9, 1, 12, 6, 2, 1, 8, 11, 3, 6, 12, 1, 13, 1, 9, 19, 4, 10, 2, 14, 9, 20, 11, 0, 12, 20, 3, 6, 0, 6, 14, 17, 4, 8>>

PayloadOf(nbytes) ==
    [i \in 1..(2 * nbytes) |-> PayloadPattern[((i - 1) % Len(PayloadPattern)) + 1]]

PayloadLens == (0..MaxPayload) \cup {36}

CallHeads == {[operation |-> 0, to |-> ToA, value |-> <<>>],
              [operation |-> 1, to |-> ToB, value |-> OneEther],
              [operation |-> 0, to |-> ToB, value |-> <<1>>]}

SubCalls == {[operation |-> h.operation, to |-> h.to, value |-> h.value,
              data |-> PayloadOf(n)] : h \in CallHeads, n \in PayloadLens}

CallSeqs == UNION {[1..n -> SubCalls] : n \in 0..MaxCalls}

\* inputs that are not a call of multiSend(bytes)
NotMultiSendKinds == {"empty", "short", "otherSelector", "selectorOnly",
                      "tooSmall", "badOffset", "badLength"}

MsKinds == NotMultiSendKinds \cup {"valid", "upperSelector", "cutBlob"}

\* byte counts at which a packed blob is cut short
CutPoints == {1, 21, 40, 53, 84, 85, 86}

ReplaceWord(hex, wordIndex, n) ==
    SubSeq(hex, 1, 8 + 64 * wordIndex) \o PadHex(NatToHex(n), 32)
        \o SubSeq(hex, 8 + 64 * (wordIndex + 1) + 1, Len(hex))

BuildData(kind, calls, cut) ==
    LET blob == PackTransactions(calls)
        valid == EncodeMultiSend(blob)
    IN CASE kind = "valid" -> valid
         [] kind = "empty" -> <<>>
         [] kind = "short" -> SubSeq(MULTISEND_SELECTOR, 1, 6)
         [] kind = "otherSelector" -> <<10, 9, 0, 5, 9, 12, 11, 11>> \o SubSeq(valid, 9, Len(valid))
         [] kind = "upperSelector" -> <<8, 19, 8, 0, 21, 21, 0, 16>> \o SubSeq(valid, 9, Len(valid))
         [] kind = "selectorOnly" -> MULTISEND_SELECTOR
         [] kind = "tooSmall" -> MULTISEND_SELECTOR \o Zeros(62)
         [] kind = "badOffset" -> ReplaceWord(valid, 0, (Len(valid) - 8) \div 2)
         [] kind = "badLength" -> ReplaceWord(valid, 1, (Len(blob) \div 2) + 64)
         [] kind = "cutBlob" -> EncodeMultiSend(SubSeq(blob, 1, 2 * cut))

MsInit ==
    /\ msKind \in MsKinds
    /\ msCalls \in CallSeqs
    /\ msKind \in {"empty", "short", "selectorOnly", "tooSmall"} => msCalls = <<>>
    /\ msCut \in IF msKind = "cutBlob"
                 THEN {k \in CutPoints : 2 * k < Len(PackTransactions(msCalls))}
                 ELSE {0}
    /\ msData = BuildData(msKind, msCalls, msCut)
    /\ msOp = "none"
    /\ msResult = NullResult
    /\ msIs = FALSE

CallDecodeMultiSend ==
    /\ msOp = "none"
    /\ msOp' = "decodeMultiSend"
    /\ msResult' = decodeMultiSend(msData)
    /\ UNCHANGED <<msCalls, msKind, msCut, msData, msIs, hashVars, verVars, secVars, appVars, uiVars>>

CallIsMultiSend ==
    /\ msOp = "none"
    /\ msOp' = "isMultiSend"
    /\ msIs' = isMultiSend(msData)
    /\ UNCHANGED <<msCalls, msKind, msCut, msData, msResult, hashVars, verVars, secVars, appVars, uiVars>>

MsNext ==
    \/ CallDecodeMultiSend
    \/ CallIsMultiSend

\* the MultiSend decoder when another component is exercised
MsIdle ==
    /\ msKind = "empty"
    /\ msCalls = <<>>
    /\ msCut = 0
    /\ msData = <<>>
    /\ msOp = "none"
    /\ msResult = NullResult
    /\ msIs = FALSE

(***************************************************************************)
(* JavaScript values of the decoded-data verifier                          *)
(*                                                                         *)
(*   <<"hex", s>>   the string '0x' followed by the hex characters s       *)
(*   <<"dec", n>>   the decimal string of the natural number n             *)
(*   <<"word", w>>  any other string w                                     *)
(*   <<"arr", a>>   an array of values                                     *)
(*   <<"big", d>>   a bigint with hex digits d (no leading zeros)          *)
(*   <<"bool", b>>  a boolean                                              *)
(***************************************************************************)
ToUpper(s) == [i \in 1..Len(s) |-> IF s[i] >= 10 /\ s[i] <= 15 THEN s[i] + 6 ELSE s[i]]

Caught == [threw |-> TRUE, v |-> <<"word", "">>]

Returned(x) == [threw |-> FALSE, v |-> x]

\* BigInt(value)
BigInt(v) ==
    CASE v[1] = "dec" -> Returned(<<"big", NatToHex(v[2])>>)
      [] v[1] = "hex" -> IF v[2] = <<>> THEN Caught
                         ELSE Returned(<<"big", BigIntOfHex(v[2])>>)
      [] v[1] = "word" -> IF v[2] = "" THEN Returned(<<"big", <<>>>>) ELSE Caught
      [] v[1] = "arr" -> IF v[2] = <<>> THEN Returned(<<"big", <<>>>>)
                         ELSE IF Len(v[2]) > 1 THEN Caught
                         ELSE CASE v[2][1][1] = "dec" -> Returned(<<"big", NatToHex(v[2][1][2])>>)
                                [] v[2][1][1] = "hex" ->
                                       IF v[2][1][2] = <<>> THEN Caught
                                       ELSE Returned(<<"big", BigIntOfHex(v[2][1][2])>>)
                                [] OTHER -> Caught

\* String(value).toLowerCase() === 'true'
IsTrueString(v) == v[1] = "word" /\ v[2] \in {"true", "TRUE", "True"}

(***************************************************************************)
(* Parameter types, classified as the verifier's string tests classify     *)
(* them                                                                    *)
(***************************************************************************)
KnownTypes == {"address", "uint256", "bool", "bytes", "uint256[]", "address[]"}

\* type.startsWith('uint') || type.startsWith('int')
IntPrefixed == {"uint256", "uint256[]"}

\* type === 'bytes' || type.startsWith('bytes')
BytesPrefixed == {"bytes"}

\* type.endsWith('[]')
ArraySuffixed == {"uint256[]", "address[]"}

ElementType(t) == CASE t = "uint256[]" -> "uint256"
                    [] t = "address[]" -> "address"

\* identifiers abitype rejects as parameter names
SolidityKeywords == {"function", "address", "bool"}

(***************************************************************************)
(* viem: isAddress, encodeAbiParameters, encodeFunctionData                *)
(***************************************************************************)
AddrLower == <<13, 8, 13, 10, 6, 11, 15, 2, 6, 9, 6, 4, 10, 15, 9, 13, 7, 14, 14, 13, 9, 14, 0, 3, 14, 5, 3, 4, 1, 5, 13, 3, 7, 10, 10, 9, 6, 0, 4, 5>>
AddrChecksummed == <<13, 8, 13, 16, 6, 17, 21, 2, 6, 9, 6, 4, 10, 21, 9, 19, 7, 14, 20, 13, 9, 14, 0, 3, 20, 5, 3, 4, 1, 5, 19, 3, 7, 10, 16, 9, 6, 0, 4, 5>>
AddrBadCase == <<19, 8, 13, 16, 6, 17, 21, 2, 6, 9, 6, 4, 10, 21, 9, 19, 7, 14, 20, 13, 9, 14, 0, 3, 20, 5, 3, 4, 1, 5, 19, 3, 7, 10, 16, 9, 6, 0, 4, 5>>
OtherAddr == <<15, 6, 5, 4, 7, 5, 14, 7, 4, 12, 1, 14, 13, 6, 13, 0, 0, 4, 13, 5, 2, 4, 0, 11, 0, 6, 14, 3, 0, 8, 8, 7, 2, 4, 13, 15, 13, 10, 5, 13>>

\* addresses of the model whose mixed-case spelling is their EIP-55 checksum
ChecksummedAddresses == {AddrChecksummed}

isAddress(v) ==
    /\ v[1] = "hex"
    /\ Len(v[2]) = 40
    /\ (ToLower(v[2]) = v[2] \/ v[2] \in ChecksummedAddresses)

NotEncodable == [threw |-> TRUE, dynamic |-> FALSE, encoded |-> <<>>]

Static(chars) == [threw |-> FALSE, dynamic |-> FALSE, encoded |-> chars]

Dynamic(chars) == [threw |-> FALSE, dynamic |-> TRUE, encoded |-> chars]

RECURSIVE SumStatic(_)
SumStatic(prepared) ==
    IF prepared = <<>> THEN 0
    ELSE (IF Head(prepared).dynamic THEN 32 ELSE Len(Head(prepared).encoded) \div 2)
             + SumStatic(Tail(prepared))

\* encodeParams: heads (offset words for dynamic values) then tails
RECURSIVE encodeHeads(_, _)
encodeHeads(prepared, tailOffset) ==
    IF prepared = <<>> THEN <<>>
    ELSE LET p == Head(prepared)
         IN IF p.dynamic
            THEN PadHex(NatToHex(tailOffset), 32)
                     \o encodeHeads(Tail(prepared), tailOffset + Len(p.encoded) \div 2)
            ELSE p.encoded \o encodeHeads(Tail(prepared), tailOffset)

RECURSIVE encodeTails(_)
encodeTails(prepared) ==
    IF prepared = <<>> THEN <<>>
    ELSE (IF Head(prepared).dynamic THEN Head(prepared).encoded ELSE <<>>)
             \o encodeTails(Tail(prepared))

encodeParams(prepared) == encodeHeads(prepared, SumStatic(prepared)) \o encodeTails(prepared)

\* prepareParam for the static types
prepareStatic(type, v) ==
    CASE type = "address" ->
             IF isAddress(v) THEN Static(PadHex(ToLower(v[2]), 32)) ELSE NotEncodable
      [] type = "bool" ->
             IF v[1] = "bool" THEN Static(PadHex(IF v[2] THEN <<1>> ELSE <<>>, 32))
             ELSE NotEncodable
      [] type = "uint256" ->
             IF v[1] = "big" /\ Len(v[2]) <= 64 THEN Static(PadHex(v[2], 32))
             ELSE NotEncodable

\* prepareParam: address, bool and uint256 are static; bytes and T[] are dynamic
prepareParam(type, v) ==
    CASE type \in ArraySuffixed ->
             IF v[1] # "arr" THEN NotEncodable                \* InvalidArrayError
             ELSE LET items == [i \in 1..Len(v[2]) |-> prepareStatic(ElementType(type), v[2][i])]
                  IN IF \E i \in 1..Len(items) : items[i].threw THEN NotEncodable
                     ELSE Dynamic(PadHex(NatToHex(Len(items)), 32) \o encodeParams(items))
      [] type = "bytes" /\ v[1] = "hex" ->
             LET size == (Len(v[2]) + 1) \div 2
                 padded == 32 * ((size + 31) \div 32)
             IN Dynamic(PadHex(NatToHex(size), 32) \o v[2] \o Zeros(2 * padded - Len(v[2])))
      [] type \in {"address", "bool", "uint256"} -> prepareStatic(type, v)

\* toFunctionSelector(formatAbiItem(item)): the first four bytes of the
\* keccak256 of the signature
SelectorTable == {
     \* name() = 0x06fdde03
     [method |-> "name", types |-> <<>>,
      selector |-> <<0, 6, 15, 13, 13, 14, 0, 3>>],
     \* transfer() = 0x8a4068dd
     [method |-> "transfer", types |-> <<>>,
      selector |-> <<8, 10, 4, 0, 6, 8, 13, 13>>],
     \* approve() = 0x12424e3f
     [method |-> "approve", types |-> <<>>,
      selector |-> <<1, 2, 4, 2, 4, 14, 3, 15>>],
     \* transfer(address) = 0x1a695230
     [method |-> "transfer", types |-> <<"address">>,
      selector |-> <<1, 10, 6, 9, 5, 2, 3, 0>>],
     \* transfer(address,uint256) = 0xa9059cbb
     [method |-> "transfer", types |-> <<"address", "uint256">>,
      selector |-> <<10, 9, 0, 5, 9, 12, 11, 11>>],
     \* transfer(address,bool) = 0x77ad25dd
     [method |-> "transfer", types |-> <<"address", "bool">>,
      selector |-> <<7, 7, 10, 13, 2, 5, 13, 13>>],
     \* transfer(uint256) = 0x12514bba
     [method |-> "transfer", types |-> <<"uint256">>,
      selector |-> <<1, 2, 5, 1, 4, 11, 11, 10>>],
     \* transfer(uint256,uint256) = 0x0cf79e0a
     [method |-> "transfer", types |-> <<"uint256", "uint256">>,
      selector |-> <<0, 12, 15, 7, 9, 14, 0, 10>>],
     \* transfer(uint256,bool) = 0xc6cdd31f
     [method |-> "transfer", types |-> <<"uint256", "bool">>,
      selector |-> <<12, 6, 12, 13, 13, 3, 1, 15>>],
     \* transfer(bool) = 0xac290988
     [method |-> "transfer", types |-> <<"bool">>,
      selector |-> <<10, 12, 2, 9, 0, 9, 8, 8>>],
     \* transfer(bool,uint256) = 0x30a65824
     [method |-> "transfer", types |-> <<"bool", "uint256">>,
      selector |-> <<3, 0, 10, 6, 5, 8, 2, 4>>],
     \* transfer(bool,bool) = 0xcfde9862
     [method |-> "transfer", types |-> <<"bool", "bool">>,
      selector |-> <<12, 15, 13, 14, 9, 8, 6, 2>>],
     \* transfer(bytes) = 0x066cfad1
     [method |-> "transfer", types |-> <<"bytes">>,
      selector |-> <<0, 6, 6, 12, 15, 10, 13, 1>>],
     \* transfer(bytes,uint256) = 0x59928d62
     [method |-> "transfer", types |-> <<"bytes", "uint256">>,
      selector |-> <<5, 9, 9, 2, 8, 13, 6, 2>>],
     \* transfer(bytes,bool) = 0xaf7d5b09
     [method |-> "transfer", types |-> <<"bytes", "bool">>,
      selector |-> <<10, 15, 7, 13, 5, 11, 0, 9>>],
     \* transfer(uint256[]) = 0xb5e36417
     [method |-> "transfer", types |-> <<"uint256[]">>,
      selector |-> <<11, 5, 14, 3, 6, 4, 1, 7>>],
     \* transfer(uint256[],uint256) = 0xfed1b138
     [method |-> "transfer", types |-> <<"uint256[]", "uint256">>,
      selector |-> <<15, 14, 13, 1, 11, 1, 3, 8>>],
     \* transfer(uint256[],bool) = 0x1e20ce29
     [method |-> "transfer", types |-> <<"uint256[]", "bool">>,
      selector |-> <<1, 14, 2, 0, 12, 14, 2, 9>>],
     \* transfer(address[]) = 0xa06c1a33
     [method |-> "transfer", types |-> <<"address[]">>,
      selector |-> <<10, 0, 6, 12, 1, 10, 3, 3>>],
     \* transfer(address[],uint256) = 0x1939c1ff
     [method |-> "transfer", types |-> <<"address[]", "uint256">>,
      selector |-> <<1, 9, 3, 9, 12, 1, 15, 15>>],
     \* transfer(address[],bool) = 0x71d03f58
     [method |-> "transfer", types |-> <<"address[]", "bool">>,
      selector |-> <<7, 1, 13, 0, 3, 15, 5, 8>>],
     \* approve(address) = 0xdaea85c5
     [method |-> "approve", types |-> <<"address">>,
      selector |-> <<13, 10, 14, 10, 8, 5, 12, 5>>],
     \* approve(address,uint256) = 0x095ea7b3
     [method |-> "approve", types |-> <<"address", "uint256">>,
      selector |-> <<0, 9, 5, 14, 10, 7, 11, 3>>],
     \* approve(address,bool) = 0x3d140d21
     [method |-> "approve", types |-> <<"address", "bool">>,
      selector |-> <<3, 13, 1, 4, 0, 13, 2, 1>>],
     \* approve(uint256) = 0xb759f954
     [method |-> "approve", types |-> <<"uint256">>,
      selector |-> <<11, 7, 5, 9, 15, 9, 5, 4>>],
     \* approve(uint256,uint256) = 0x5d35a3d9
     [method |-> "approve", types |-> <<"uint256", "uint256">>,
      selector |-> <<5, 13, 3, 5, 10, 3, 13, 9>>],
     \* approve(uint256,bool) = 0x747442d3
     [method |-> "approve", types |-> <<"uint256", "bool">>,
      selector |-> <<7, 4, 7, 4, 4, 2, 13, 3>>],
     \* approve(bool) = 0x09b67f8e
     [method |-> "approve", types |-> <<"bool">>,
      selector |-> <<0, 9, 11, 6, 7, 15, 8, 14>>],
     \* approve(bool,uint256) = 0x1c8551d8
     [method |-> "approve", types |-> <<"bool", "uint256">>,
      selector |-> <<1, 12, 8, 5, 5, 1, 13, 8>>],
     \* approve(bool,bool) = 0x47691833
     [method |-> "approve", types |-> <<"bool", "bool">>,
      selector |-> <<4, 7, 6, 9, 1, 8, 3, 3>>],
     \* approve(bytes) = 0x019d2729
     [method |-> "approve", types |-> <<"bytes">>,
      selector |-> <<0, 1, 9, 13, 2, 7, 2, 9>>],
     \* approve(bytes,uint256) = 0x67a43b1f
     [method |-> "approve", types |-> <<"bytes", "uint256">>,
      selector |-> <<6, 7, 10, 4, 3, 11, 1, 15>>],
     \* approve(bytes,bool) = 0x781f82a8
     [method |-> "approve", types |-> <<"bytes", "bool">>,
      selector |-> <<7, 8, 1, 15, 8, 2, 10, 8>>],
     \* approve(uint256[]) = 0xb8b69683
     [method |-> "approve", types |-> <<"uint256[]">>,
      selector |-> <<11, 8, 11, 6, 9, 6, 8, 3>>],
     \* approve(uint256[],uint256) = 0x14e729de
     [method |-> "approve", types |-> <<"uint256[]", "uint256">>,
      selector |-> <<1, 4, 14, 7, 2, 9, 13, 14>>],
     \* approve(uint256[],bool) = 0x1661854b
     [method |-> "approve", types |-> <<"uint256[]", "bool">>,
      selector |-> <<1, 6, 6, 1, 8, 5, 4, 11>>],
     \* approve(address[]) = 0x77a1736b
     [method |-> "approve", types |-> <<"address[]">>,
      selector |-> <<7, 7, 10, 1, 7, 3, 6, 11>>],
     \* approve(address[],uint256) = 0x3c046960
     [method |-> "approve", types |-> <<"address[]", "uint256">>,
      selector |-> <<3, 12, 0, 4, 6, 9, 6, 0>>],
     \* approve(address[],bool) = 0xbf42c770
     [method |-> "approve", types |-> <<"address[]", "bool">>,
      selector |-> <<11, 15, 4, 2, 12, 7, 7, 0>>]
    }

toFunctionSelector(method, types) ==
    (CHOOSE e \in SelectorTable : e.method = method /\ e.types = types).selector

NoData == [threw |-> TRUE, hex |-> <<>>]

encodeFunctionData(method, types, args) ==
    LET prepared == [i \in 1..Len(types) |-> prepareParam(types[i], args[i])]
    IN IF \E i \in 1..Len(prepared) : prepared[i].threw THEN NoData
       ELSE [threw |-> FALSE,
             hex |-> toFunctionSelector(method, types) \o encodeParams(prepared)]

\* parseAbiParameters('<type> <name>, ...') throws on an unknown type and on
\* a protected keyword used as a name
parseAbiParametersThrows(parameters) ==
    \E i \in 1..Len(parameters) :
        \/ parameters[i].type \notin KnownTypes
        \/ parameters[i].name \in SolidityKeywords

(***************************************************************************)
(* utils/verify-decoded.ts                                                 *)
(***************************************************************************)
ErrNoDecoded == "No decoded data provided"
ErrNoRaw == "No raw data to verify against"
ErrExtraBytes == "Raw data has extra bytes beyond function selector"
ErrMismatch == "Re-encoded data does not match raw data"
ErrFailed == "Verification failed"
Undefined == "undefined"

NoHex == [present |-> FALSE, hex |-> <<>>]

SomeHex(chars) == [present |-> TRUE, hex |-> chars]

\* the result object, and whether an exception left verifyDecodedData instead
VerResult(verified, error, reencoded) ==
    [verified |-> verified, error |-> error, reencoded |-> reencoded, threw |-> FALSE]

\* the conversion of one declared value to the type encodeFunctionData takes
convertArg(param) ==
    IF param.type = "address" \/ param.type = "address[]" THEN Returned(param.value)
    ELSE IF param.type \in IntPrefixed THEN BigInt(param.value)
    ELSE IF param.type = "bool" THEN Returned(<<"bool", IsTrueString(param.value)>>)
    ELSE IF param.type \in BytesPrefixed THEN Returned(param.value)
    ELSE Returned(param.value)      \* no modelled type reaches the JSON.parse branch

\* the try block comparing the re-encoded data with the raw data as written
verifyTry_caseSensitive(rawData, decoded) ==
    LET functionSelector == JsSlice(rawData.hex, 0, 8)
    IN IF ~decoded.hasParameters THEN VerResult(FALSE, ErrFailed, NoHex)   \* TypeError in .map
       ELSE IF Len(decoded.parameters) = 0
       THEN LET verified == rawData.hex = functionSelector
            IN VerResult(verified, IF verified THEN Undefined ELSE ErrExtraBytes,
                         SomeHex(functionSelector))
       ELSE IF parseAbiParametersThrows(decoded.parameters)
       THEN VerResult(FALSE, ErrFailed, NoHex)
       ELSE LET args == [i \in 1..Len(decoded.parameters) |-> convertArg(decoded.parameters[i])]
            IN IF \E i \in 1..Len(args) : args[i].threw
               THEN VerResult(FALSE, ErrFailed, NoHex)
               ELSE LET reencoded ==
                            encodeFunctionData(decoded.method,
                                [i \in 1..Len(args) |-> decoded.parameters[i].type],
                                [i \in 1..Len(args) |-> args[i].v])
                    IN IF reencoded.threw THEN VerResult(FALSE, ErrFailed, NoHex)
                       ELSE LET verified == reencoded.hex = rawData.hex
                            IN VerResult(verified,
                                         IF verified THEN Undefined ELSE ErrMismatch,
                                         SomeHex(reencoded.hex))

\* the body of the try block
verifyTry(rawData, decoded) ==
    LET functionSelector == JsSlice(rawData.hex, 0, 8)
    IN IF ~decoded.hasParameters THEN VerResult(FALSE, ErrFailed, NoHex)   \* TypeError in .map
       ELSE IF Len(decoded.parameters) = 0
       THEN LET verified == rawData.hex = functionSelector
            IN VerResult(verified, IF verified THEN Undefined ELSE ErrExtraBytes,
                         SomeHex(functionSelector))
       ELSE IF parseAbiParametersThrows(decoded.parameters)
       THEN VerResult(FALSE, ErrFailed, NoHex)
       ELSE LET args == [i \in 1..Len(decoded.parameters) |-> convertArg(decoded.parameters[i])]
            IN IF \E i \in 1..Len(args) : args[i].threw
               THEN VerResult(FALSE, ErrFailed, NoHex)
               ELSE LET reencoded ==
                            encodeFunctionData(decoded.method,
                                [i \in 1..Len(args) |-> decoded.parameters[i].type],
                                [i \in 1..Len(args) |-> args[i].v])
                    IN IF reencoded.threw THEN VerResult(FALSE, ErrFailed, NoHex)
                       ELSE LET verified == ToLower(reencoded.hex) = ToLower(rawData.hex)
                            IN VerResult(verified,
                                         IF verified THEN Undefined ELSE ErrMismatch,
                                         SomeHex(reencoded.hex))

\* verifyDecodedData reading decoded.parameters before entering the try block
verifyDecodedData_mapOutsideTry(rawData, decoded) ==
    IF decoded.isNull THEN VerResult(FALSE, ErrNoDecoded, NoHex)
    ELSE IF rawData.isNull \/ rawData.hex = <<>> THEN VerResult(FALSE, ErrNoRaw, NoHex)
    ELSE IF ~decoded.hasParameters
    THEN [verified |-> FALSE, error |-> Undefined, reencoded |-> NoHex, threw |-> TRUE]
    ELSE verifyTry(rawData, decoded)

verifyDecodedData(rawData, decoded) ==
    IF decoded.isNull THEN VerResult(FALSE, ErrNoDecoded, NoHex)
    ELSE IF rawData.isNull \/ rawData.hex = <<>> THEN VerResult(FALSE, ErrNoRaw, NoHex)
    ELSE verifyTry(rawData, decoded)

(***************************************************************************)
(* Inputs of the decoded-data verifier                                     *)
(***************************************************************************)
Param(name, type, value, bad) == [name |-> name, type |-> type, value |-> value, bad |-> bad]

HelloBytes == <<6, 8, 6, 5, 6, 12, 6, 12, 6, 15>>

\* declared first parameters; bad marks a declaration that cannot be
\* parsed, converted or encoded
FirstParams == {
    Param("to", "address", <<"hex", AddrChecksummed>>, FALSE),
    Param("to", "address", <<"hex", AddrLower>>, FALSE),
    Param("to", "address", <<"hex", AddrBadCase>>, TRUE),
    Param("to", "address", <<"word", "abc">>, TRUE),
    Param("amount", "uint256", <<"dec", 1000>>, FALSE),
    Param("amount", "uint256", <<"hex", <<3, 14, 8>>>>, FALSE),
    Param("amount", "uint256", <<"word", "abc">>, TRUE),
    Param("flag", "bool", <<"word", "true">>, FALSE),
    Param("flag", "bool", <<"word", "TRUE">>, FALSE),
    Param("flag", "bool", <<"word", "false">>, FALSE),
    Param("data", "bytes", <<"hex", HelloBytes>>, FALSE),
    Param("ids", "uint256[]", <<"arr", <<<<"dec", 1>>, <<"dec", 2>>>>>>, FALSE),
    Param("ids", "uint256[]", <<"arr", <<<<"dec", 5>>>>>>, FALSE),
    Param("owners", "address[]", <<"arr", <<<<"hex", AddrLower>>, <<"hex", AddrChecksummed>>>>>>, FALSE),
    Param("owners", "address[]", <<"word", "[\"0x\"]">>, TRUE),
    Param("x", "foo", <<"dec", 1>>, TRUE),
    Param("function", "uint256", <<"dec", 1>>, TRUE)}

SecondParams == {
    Param("value", "uint256", <<"dec", 1000>>, FALSE),
    Param("value", "uint256", <<"dec", 2000>>, FALSE),
    Param("value", "uint256", <<"word", "abc">>, TRUE),
    Param("ok", "bool", <<"word", "true">>, FALSE)}

Claim(method, parameters) ==
    [isNull |-> FALSE, hasParameters |-> TRUE, method |-> method, parameters |-> parameters]

NullClaim == [isNull |-> TRUE, hasParameters |-> FALSE, method |-> "", parameters |-> <<>>]

\* a decoded object without a parameters list
NoParametersClaim ==
    [isNull |-> FALSE, hasParameters |-> FALSE, method |-> "transfer", parameters |-> <<>>]

Claims ==
    {NullClaim, NoParametersClaim}
        \cup {Claim(m, <<>>) : m \in {"name", "transfer"}}
        \cup {Claim(m, <<p>>) : m \in {"transfer", "approve"}, p \in FirstParams}
        \cup {Claim(m, <<p, q>>) : m \in {"transfer", "approve"}, p \in FirstParams, q \in SecondParams}

\* calls whose ABI encoding is used as raw data
RefCalls == {
    [method |-> "name", types |-> <<>>, args |-> <<>>],
    [method |-> "transfer", types |-> <<"address", "uint256">>,
     args |-> <<<<"hex", AddrLower>>, <<"big", NatToHex(1000)>>>>],
    [method |-> "approve", types |-> <<"bool">>, args |-> <<<<"bool", TRUE>>>>],
    [method |-> "transfer", types |-> <<"bytes">>, args |-> <<<<"hex", HelloBytes>>>>],
    [method |-> "transfer", types |-> <<"uint256[]">>,
     args |-> <<<<"arr", <<<<"big", <<1>>>>, <<"big", <<2>>>>>>>>>>],
    [method |-> "transfer", types |-> <<"address[]">>,
     args |-> <<<<"arr", <<<<"hex", AddrLower>>, <<"hex", AddrLower>>>>>>>>]}

RawKinds == {"null", "empty", "exact", "upper", "extraByte", "selectorOnly", "short"}

BuildRaw(kind, ref) ==
    LET exact == encodeFunctionData(ref.method, ref.types, ref.args).hex
    IN CASE kind = "null" -> [isNull |-> TRUE, hex |-> <<>>]
         [] kind = "empty" -> [isNull |-> FALSE, hex |-> <<>>]
         [] kind = "exact" -> [isNull |-> FALSE, hex |-> exact]
         [] kind = "upper" -> [isNull |-> FALSE, hex |-> ToUpper(exact)]
         [] kind = "extraByte" -> [isNull |-> FALSE, hex |-> exact \o <<0, 0>>]
         [] kind = "selectorOnly" -> [isNull |-> FALSE, hex |-> SubSeq(exact, 1, 8)]
         [] kind = "short" -> [isNull |-> FALSE, hex |-> SubSeq(exact, 1, 4)]

VerNoResult == [verified |-> FALSE, error |-> "pending", reencoded |-> NoHex, threw |-> FALSE]

\* the same bytes written with upper-case letters at the odd positions only
ToMixed(s) ==
    [i \in 1..Len(s) |-> IF i % 2 = 1 /\ s[i] >= 10 /\ s[i] <= 15 THEN s[i] + 6
                         ELSE IF i % 2 = 0 /\ s[i] >= 16 THEN s[i] - 6 ELSE s[i]]

Respelled(rawData, hex) == [isNull |-> rawData.isNull, hex |-> hex]

NoSpellings ==
    [lower |-> VerNoResult, upper |-> VerNoResult, mixed |-> VerNoResult, again |-> VerNoResult]

VerInit ==
    /\ verRawKind \in RawKinds
    /\ verRef \in RefCalls
    /\ verRawKind \in {"null", "empty"} =>
           verRef = CHOOSE r \in RefCalls : r.types = <<"address", "uint256">>
    /\ verRaw = BuildRaw(verRawKind, verRef)
    /\ verDecoded \in Claims
    /\ verOp = "none"
    /\ verResult = VerNoResult
    /\ verSpellings = NoSpellings

CallVerifyDecodedData ==
    /\ verOp = "none"
    /\ verOp' = "verifyDecodedData"
    /\ verResult' = verifyDecodedData(verRaw, verDecoded)
    /\ UNCHANGED <<verRawKind, verRef, verRaw, verDecoded, verSpellings, hashVars, msVars, secVars, appVars, uiVars>>

\* the same call repeated, and made with the raw data in lower, upper and
\* mixed case
CallVerifySpellings ==
    /\ verOp = "verifyDecodedData"
    /\ verOp' = "spellings"
    /\ verSpellings' =
           [lower |-> verifyDecodedData(Respelled(verRaw, ToLower(verRaw.hex)), verDecoded),
            upper |-> verifyDecodedData(Respelled(verRaw, ToUpper(verRaw.hex)), verDecoded),
            mixed |-> verifyDecodedData(Respelled(verRaw, ToMixed(verRaw.hex)), verDecoded),
            again |-> verifyDecodedData(verRaw, verDecoded)]
    /\ UNCHANGED <<verRawKind, verRef, verRaw, verDecoded, verResult, hashVars, msVars, secVars, appVars, uiVars>>

VerNext ==
    \/ CallVerifyDecodedData
    \/ CallVerifySpellings

\* the verifier when another component is exercised
VerIdle ==
    /\ verRawKind = "null"
    /\ verRef = CHOOSE r \in RefCalls : r.types = <<"address", "uint256">>
    /\ verRaw = [isNull |-> TRUE, hex |-> <<>>]
    /\ verDecoded = NullClaim
    /\ verOp = "none"
    /\ verResult = VerNoResult
    /\ verSpellings = NoSpellings

(***************************************************************************)
(* security/constants.ts                                                   *)
(***************************************************************************)
MULTISEND_CALL_ONLY == <<
    \* 0x40A2aCCbd92BCA938b02010E17A5b8929b49130D
    <<4, 0, 16, 2, 10, 18, 18, 11, 13, 9, 2, 17, 18, 16, 9, 3, 8, 11, 0, 2, 0, 1, 0, 20, 1, 7, 16, 5, 11, 8, 9, 2, 9, 11, 4, 9, 1, 3, 0, 19>>,
    \* 0xA1dabEF33b3B82c7814B6D82A79e50F4AC44102B
    <<16, 1, 13, 10, 11, 20, 21, 3, 3, 11, 3, 17, 8, 2, 12, 7, 8, 1, 4, 17, 6, 19, 8, 2, 16, 7, 9, 14, 5, 0, 21, 4, 16, 18, 4, 4, 1, 0, 2, 17>>,
    \* 0xf220D3b4DFb23C4ade8C88E526C1353AbAcbC38F
    <<15, 2, 2, 0, 19, 3, 11, 4, 19, 21, 11, 2, 3, 18, 4, 10, 13, 14, 8, 18, 8, 8, 20, 5, 2, 6, 18, 1, 3, 5, 3, 16, 11, 16, 12, 11, 18, 3, 8, 21>>,
    \* 0x9641d764fc13c8B624c04430C7356C1C7C8102e2
    <<9, 6, 4, 1, 13, 7, 6, 4, 15, 12, 1, 3, 12, 8, 17, 6, 2, 4, 12, 0, 4, 4, 3, 0, 18, 7, 3, 5, 6, 18, 1, 18, 7, 18, 8, 1, 0, 2, 14, 2>>,
    \* 0x0408EF011960d02349d50286D20531229BCef773
    <<0, 4, 0, 8, 20, 21, 0, 1, 1, 9, 6, 0, 13, 0, 2, 3, 4, 9, 13, 5, 0, 2, 8, 6, 19, 2, 0, 5, 3, 1, 2, 2, 9, 17, 18, 14, 15, 7, 7, 3>>,
    \* 0xA83c336B20401Af773B6219BA5027174338D1836
    <<16, 8, 3, 12, 3, 3, 6, 17, 2, 0, 4, 0, 1, 16, 15, 7, 7, 3, 17, 6, 2, 1, 9, 17, 16, 5, 0, 2, 7, 1, 7, 4, 3, 3, 8, 19, 1, 8, 3, 6>>
    >>

SAFE_MIGRATION == <<
    \* 0x526643F69b81B008F46d95CD5ced5eC0edFFDaC6
    <<5, 2, 6, 6, 4, 3, 21, 6, 9, 11, 8, 1, 17, 0, 0, 8, 21, 4, 6, 13, 9, 5, 18, 19, 5, 12, 14, 13, 5, 14, 18, 0, 14, 13, 21, 21, 19, 10, 18, 6>>,
    \* 0x817756C6c555A94BCEE39eB5a102AbC1678b09A7
    <<8, 1, 7, 7, 5, 6, 18, 6, 12, 5, 5, 5, 16, 9, 4, 17, 18, 20, 20, 3, 9, 14, 17, 5, 10, 1, 0, 2, 16, 11, 18, 1, 6, 7, 8, 11, 0, 9, 16, 7>>,
    \* 0x6439e7ABD8Bb915A5263094784C5CF561c4172AC
    <<6, 4, 3, 9, 14, 7, 16, 17, 19, 8, 17, 11, 9, 1, 5, 16, 5, 2, 6, 3, 0, 9, 4, 7, 8, 4, 18, 5, 18, 21, 5, 6, 1, 12, 4, 1, 7, 2, 16, 18>>
    >>

SIGN_MESSAGE_LIB == <<
    \* 0xA65387F16B013cf2Af4605Ad8aA5ec25a2cbA3a2
    <<16, 6, 5, 3, 8, 7, 21, 1, 6, 17, 0, 1, 3, 12, 15, 2, 16, 15, 4, 6, 0, 5, 16, 13, 8, 10, 16, 5, 14, 12, 2, 5, 10, 2, 12, 11, 16, 3, 10, 2>>,
    \* 0x98FFBBF51bb33A056B08ddf711f289936AafF717
    <<9, 8, 21, 21, 17, 17, 21, 5, 1, 11, 11, 3, 3, 16, 0, 5, 6, 17, 0, 8, 13, 13, 15, 7, 1, 1, 15, 2, 8, 9, 9, 3, 6, 16, 10, 15, 21, 7, 1, 7>>,
    \* 0x357147caf9C0cCa67DfA0CF5369318d8193c8407
    <<3, 5, 7, 1, 4, 7, 12, 10, 15, 9, 18, 0, 12, 18, 10, 6, 7, 19, 15, 16, 0, 18, 21, 5, 3, 6, 9, 3, 1, 8, 13, 8, 1, 9, 3, 12, 8, 4, 0, 7>>,
    \* 0xd53cd0aB83D845Ac265BE939c57F53AD838012c9
    <<13, 5, 3, 12, 13, 0, 10, 17, 8, 3, 19, 8, 4, 5, 16, 12, 2, 6, 5, 17, 20, 9, 3, 9, 12, 5, 7, 21, 5, 3, 16, 19, 8, 3, 8, 0, 1, 2, 12, 9>>,
    \* 0xAca1ec0a1A575CDCCF1DC3d5d296202Eb6061888
    <<16, 12, 10, 1, 14, 12, 0, 10, 1, 16, 5, 7, 5, 18, 19, 18, 18, 21, 1, 19, 18, 3, 13, 5, 13, 2, 9, 6, 2, 0, 2, 20, 11, 6, 0, 6, 1, 8, 8, 8>>,
    \* 0x4FfeF8222648872B3dE295Ba1e49110E61f5b5aa
    <<4, 21, 15, 14, 21, 8, 2, 2, 2, 6, 4, 8, 8, 7, 2, 17, 3, 13, 20, 2, 9, 5, 17, 10, 1, 14, 4, 9, 1, 1, 0, 20, 6, 1, 15, 5, 11, 5, 10, 10>>
    >>

TRUSTED_DELEGATE_CALL_ADDRESSES == MULTISEND_CALL_ONLY \o SAFE_MIGRATION \o SIGN_MESSAGE_LIB

TRUSTED_MODULES == <<
    \* 0xcfbfac74c26f8647cbdb8c5caf80bb5b32e43134
    <<12, 15, 11, 15, 10, 12, 7, 4, 12, 2, 6, 15, 8, 6, 4, 7, 12, 11, 13, 11, 8, 12, 5, 12, 10, 15, 8, 0, 11, 11, 5, 11, 3, 2, 14, 4, 3, 1, 3, 4>>
    >>

TRUSTED_GUARDS == <<>>

\* the zero address as a string of forty hex characters
ZERO_ADDRESS_HEX == Zeros(40)

(***************************************************************************)
(* security/delegate-call.ts                                               *)
(*                                                                         *)
(* An optional field that is absent is the empty sequence (warning,        *)
(* targetAddress) or Undefined (warningLevel).                             *)
(***************************************************************************)
DelegateCall == 1

\* isTrustedForDelegateCall comparing the addresses as written
isTrustedForDelegateCall_caseSensitive(address) ==
    \E i \in 1..Len(TRUSTED_DELEGATE_CALL_ADDRESSES) :
        TRUSTED_DELEGATE_CALL_ADDRESSES[i] = address

isTrustedForDelegateCall(address) ==
    LET normalizedAddress == ToLower(address)
    IN \E i \in 1..Len(TRUSTED_DELEGATE_CALL_ADDRESSES) :
           ToLower(TRUSTED_DELEGATE_CALL_ADDRESSES[i]) = normalizedAddress

DELEGATE_WARNING == "WARNING: The transaction includes an untrusted delegate call to address"

checkDelegateCall(operation, to) ==
    LET isDelegateCall == operation = DelegateCall
    IN IF ~isDelegateCall
       THEN [isDelegateCall |-> FALSE, isTrusted |-> FALSE, targetAddress |-> <<>>,
             warning |-> <<>>, warningLevel |-> Undefined]
       ELSE IF isTrustedForDelegateCall(to)
       THEN [isDelegateCall |-> TRUE, isTrusted |-> TRUE, targetAddress |-> to,
             warning |-> <<>>, warningLevel |-> Undefined]
       ELSE [isDelegateCall |-> TRUE, isTrusted |-> FALSE, targetAddress |-> to,
             warning |-> <<DELEGATE_WARNING, to>>, warningLevel |-> "critical"]

(***************************************************************************)
(* security/gas-token.ts                                                   *)
(***************************************************************************)
GAS_WARNING_BOTH == "WARNING: This transaction uses a custom gas token and a custom refund receiver. This combination can be used to hide a rerouting of funds through gas refunds."
GAS_WARNING_PRICE == "Furthermore, the gas price is non-zero, which increases the potential for hidden value transfers."
GAS_WARNING_TOKEN == "WARNING: This transaction uses a custom gas token. Please verify that this is intended."
GAS_WARNING_RECEIVER == "WARNING: This transaction uses a custom refund receiver. Please verify that this is intended."

GasResult(customToken, customReceiver, nonZero, gasToken, refundReceiver, gasPrice, riskLevel, warnings, warningLevel) ==
    [threw |-> FALSE,
     usesCustomGasToken |-> customToken,
     usesCustomRefundReceiver |-> customReceiver,
     hasNonZeroGasPrice |-> nonZero,
     gasToken |-> gasToken,
     refundReceiver |-> refundReceiver,
     gasPrice |-> gasPrice,
     riskLevel |-> riskLevel,
     warnings |-> warnings,
     warningLevel |-> warningLevel]

\* BigInt(gasPrice) threw
GasThrew ==
    [threw |-> TRUE,
     usesCustomGasToken |-> FALSE,
     usesCustomRefundReceiver |-> FALSE,
     hasNonZeroGasPrice |-> FALSE,
     gasToken |-> <<>>,
     refundReceiver |-> <<>>,
     gasPrice |-> <<"dec", 0>>,
     riskLevel |-> Undefined,
     warnings |-> <<>>,
     warningLevel |-> Undefined]

\* the rest of checkGasTokenAttack once the gas price is a bigint
classifyGas(gasPriceBigInt, gasPriceString, gasToken, refundReceiver) ==
    LET usesCustomGasToken == ToLower(gasToken) # ToLower(ZERO_ADDRESS_HEX)
        usesCustomRefundReceiver == ToLower(refundReceiver) # ToLower(ZERO_ADDRESS_HEX)
        hasNonZeroGasPrice == gasPriceBigInt[2] # <<>>
        Result(riskLevel, warnings, warningLevel) ==
            GasResult(usesCustomGasToken, usesCustomRefundReceiver, hasNonZeroGasPrice,
                      gasToken, refundReceiver, gasPriceString,
                      riskLevel, warnings, warningLevel)
    IN IF usesCustomGasToken /\ usesCustomRefundReceiver
       THEN IF hasNonZeroGasPrice
            THEN Result("critical", <<GAS_WARNING_BOTH, GAS_WARNING_PRICE>>, "critical")
            ELSE Result("high", <<GAS_WARNING_BOTH>>, "high")
       ELSE IF usesCustomGasToken
       THEN Result("medium", <<GAS_WARNING_TOKEN>>, "medium")
       ELSE IF usesCustomRefundReceiver
       THEN Result("low", <<GAS_WARNING_RECEIVER>>, "low")
       ELSE Result("none", <<>>, Undefined)

\* checkGasTokenAttack with the levels its own doc comment lists: the two
\* customisations at zero gas price rated medium, a custom token alone low
checkGasTokenAttack_docLevels(gasPrice, gasToken, refundReceiver) ==
    LET gasPriceBigInt == IF gasPrice[1] = "big" THEN Returned(gasPrice) ELSE BigInt(gasPrice)
    IN IF gasPriceBigInt.threw THEN GasThrew
       ELSE LET r == classifyGas(gasPriceBigInt.v,
                                 IF gasPrice[1] = "big" THEN <<"dec", HexToNat(gasPrice[2])>>
                                 ELSE gasPrice,
                                 gasToken, refundReceiver)
            IN IF r.riskLevel = "high"
               THEN [r EXCEPT !.riskLevel = "medium", !.warningLevel = "medium"]
               ELSE IF r.riskLevel = "medium"
               THEN [r EXCEPT !.riskLevel = "low", !.warningLevel = "low"]
               ELSE r

checkGasTokenAttack(gasPrice, gasToken, refundReceiver) ==
    LET gasPriceBigInt == IF gasPrice[1] = "big" THEN Returned(gasPrice) ELSE BigInt(gasPrice)
    IN IF gasPriceBigInt.threw THEN GasThrew
       ELSE classifyGas(gasPriceBigInt.v,
                        IF gasPrice[1] = "big" THEN <<"dec", HexToNat(gasPrice[2])>>
                        ELSE gasPrice,
                        gasToken, refundReceiver)

(***************************************************************************)
(* security/owner-checks.ts                                                *)
(***************************************************************************)
\* toFunctionSelector of the four signatures
OWNER_MODIFICATION_SELECTORS == {
    \* addOwnerWithThreshold(address,uint256) = 0x0d582f13
    [selector |-> <<0, 13, 5, 8, 2, 15, 1, 3>>, functionName |-> "addOwnerWithThreshold"],
    \* removeOwner(address,address,uint256) = 0xf8dc5dd9
    [selector |-> <<15, 8, 13, 12, 5, 13, 13, 9>>, functionName |-> "removeOwner"],
    \* swapOwner(address,address,address) = 0xe318b52b
    [selector |-> <<14, 3, 1, 8, 11, 5, 2, 11>>, functionName |-> "swapOwner"],
    \* changeThreshold(uint256) = 0x694e80c3
    [selector |-> <<6, 9, 4, 14, 8, 0, 12, 3>>, functionName |-> "changeThreshold"]}

\* getFunctionSelector: null is the empty sequence
getFunctionSelector(data) == IF Len(data) < 8 THEN <<>> ELSE JsSlice(data, 0, 8)

\* Map.get(selector): the empty string when there is no such key
SelectorName(map, selector) ==
    IF \E e \in map : e.selector = selector
    THEN (CHOOSE e \in map : e.selector = selector).functionName
    ELSE ""

\* owner-checks.ts checkTransactionData, and its loop over the nested
\* transactions from index i on
RECURSIVE checkOwnerTransactionData(_, _)
RECURSIVE checkOwnerNested(_, _, _)
checkOwnerNested(txs, i, depth) ==
    IF i > Len(txs) THEN <<>>
    ELSE checkOwnerTransactionData(txs[i].data, depth) \o checkOwnerNested(txs, i + 1, depth)

\* the nested transactions of a decoded batch, one level deeper
checkOwnerBatch(multiSendTxs, depth) ==
    IF multiSendTxs.isNull THEN <<>> ELSE checkOwnerNested(multiSendTxs.txs, 1, depth + 1)

checkOwnerTransactionData(data, depth) ==
    IF data = <<>> THEN <<>>
    ELSE LET selector == getFunctionSelector(data)
             functionName == SelectorName(OWNER_MODIFICATION_SELECTORS, selector)
         IN IF selector # <<>> /\ functionName # ""
            THEN <<[functionName |-> functionName, isNested |-> depth > 0, depth |-> depth]>>
            ELSE checkOwnerBatch(decodeMultiSend(data), depth)

OWNER_WARNING == "WARNING: This transaction modifies the owners or threshold of the Safe!"

\* checkOwnerModifications once checkTransactionData has returned
ownerResult(modifications) ==
    IF Len(modifications) = 0
    THEN [modifiesOwners |-> FALSE, modifications |-> <<>>,
          warning |-> <<>>, warningLevel |-> "info"]
    ELSE [modifiesOwners |-> TRUE, modifications |-> modifications,
          warning |-> <<OWNER_WARNING,
                        [i \in 1..Len(modifications) |-> modifications[i].functionName]>>,
          warningLevel |-> "critical"]

checkOwnerModifications(data) == ownerResult(checkOwnerTransactionData(data, 0))

(***************************************************************************)
(* security/module-guard-checks.ts                                         *)
(***************************************************************************)
MODULE_SELECTORS == {
    \* enableModule(address) = 0x610b5925
    [selector |-> <<6, 1, 0, 11, 5, 9, 2, 5>>, functionName |-> "enableModule"],
    \* disableModule(address,address) = 0xe009cfde
    [selector |-> <<14, 0, 0, 9, 12, 15, 13, 14>>, functionName |-> "disableModule"]}

GUARD_SELECTORS == {
    \* setGuard(address) = 0xe19a9dd9
    [selector |-> <<14, 1, 9, 10, 9, 13, 13, 9>>, functionName |-> "setGuard"]}

\* viem checksumAddress on the addresses that occur as module or guard: a
\* letter is upper-case where the keccak256 of the lower-case address says
ChecksumTable == {
    \* 0xCFbFaC74C26F8647cBDb8c5caf80BB5b32E43134
    [lower |-> <<12, 15, 11, 15, 10, 12, 7, 4, 12, 2, 6, 15, 8, 6, 4, 7, 12, 11, 13, 11, 8, 12, 5, 12, 10, 15, 8, 0, 11, 11, 5, 11, 3, 2, 14, 4, 3, 1, 3, 4>>,
     checksummed |-> <<18, 21, 11, 21, 10, 18, 7, 4, 18, 2, 6, 21, 8, 6, 4, 7, 12, 17, 19, 11, 8, 12, 5, 12, 10, 15, 8, 0, 17, 17, 5, 11, 3, 2, 20, 4, 3, 1, 3, 4>>],
    \* 0xf65475e74C1Ed6d004d5240b06E3088724dFDA5d
    [lower |-> <<15, 6, 5, 4, 7, 5, 14, 7, 4, 12, 1, 14, 13, 6, 13, 0, 0, 4, 13, 5, 2, 4, 0, 11, 0, 6, 14, 3, 0, 8, 8, 7, 2, 4, 13, 15, 13, 10, 5, 13>>,
     checksummed |-> <<15, 6, 5, 4, 7, 5, 14, 7, 4, 18, 1, 20, 13, 6, 13, 0, 0, 4, 13, 5, 2, 4, 0, 11, 0, 6, 20, 3, 0, 8, 8, 7, 2, 4, 13, 21, 19, 16, 5, 13>>]}

checksumAddress(address) ==
    LET lower == ToLower(address)
    IN IF \A i \in 1..Len(lower) : lower[i] <= 9 THEN lower
       ELSE (CHOOSE e \in ChecksumTable : e.lower = lower).checksummed

DecodeThrew == [threw |-> TRUE, args |-> <<>>]

\* viem decodeFunctionData for a function of `count` address parameters
\* whose selector has already matched: slice(data, 4) and a cursor reading
\* one 32-byte word per parameter, each address taken from the last 20 bytes
decodeAddressArguments(data, count) ==
    LET body == JsSlice(data, 8, Len(data))
        size == Len(body) \div 2
    IN IF size = 0 THEN DecodeThrew                \* SliceOffsetOutOfBoundsError
       ELSE IF size < 32 THEN DecodeThrew          \* AbiDecodingDataSizeTooSmallError
       ELSE IF size < 32 * count THEN DecodeThrew  \* PositionOutOfBoundsError
       ELSE [threw |-> FALSE,
             args |-> [i \in 1..count |->
                          checksumAddress(SubSeq(body, 64 * (i - 1) + 25, 64 * i))]]

isTrustedModule(address) ==
    LET normalizedAddress == ToLower(address)
    IN \E i \in 1..Len(TRUSTED_MODULES) : ToLower(TRUSTED_MODULES[i]) = normalizedAddress

isTrustedGuard(address) ==
    LET normalizedAddress == ToLower(address)
    IN \E i \in 1..Len(TRUSTED_GUARDS) : ToLower(TRUSTED_GUARDS[i]) = normalizedAddress

Detection(type, functionName, targetAddress, isTrusted, depth) ==
    [type |-> type, functionName |-> functionName, targetAddress |-> targetAddress,
     isTrusted |-> isTrusted, isNested |-> depth > 0, depth |-> depth]

\* module-guard-checks.ts checkTransactionData, and its loop over the
\* nested transactions from index i on
RECURSIVE checkModuleGuardTransactionData(_, _)
RECURSIVE checkModuleGuardNested(_, _, _)
checkModuleGuardNested(txs, i, depth) ==
    IF i > Len(txs) THEN <<>>
    ELSE checkModuleGuardTransactionData(txs[i].data, depth)
             \o checkModuleGuardNested(txs, i + 1, depth)

\* the nested transactions of a decoded batch, one level deeper
checkModuleGuardBatch(multiSendTxs, depth) ==
    IF multiSendTxs.isNull THEN <<>>
    ELSE checkModuleGuardNested(multiSendTxs.txs, 1, depth + 1)

checkModuleGuardTransactionData(data, depth) ==
    IF data = <<>> THEN <<>>
    ELSE LET selector == getFunctionSelector(data)
             moduleFunctionName == SelectorName(MODULE_SELECTORS, selector)
             guardFunctionName == SelectorName(GUARD_SELECTORS, selector)
         IN IF selector # <<>> /\ moduleFunctionName # ""
            THEN LET decoded == decodeAddressArguments(
                                    data, IF moduleFunctionName = "enableModule" THEN 1 ELSE 2)
                 IN IF decoded.threw
                    THEN <<Detection("module", moduleFunctionName, <<>>, FALSE, depth)>>
                    ELSE LET moduleAddress ==
                                 IF moduleFunctionName = "enableModule"
                                 THEN decoded.args[1] ELSE decoded.args[2]
                         IN <<Detection("module", moduleFunctionName, moduleAddress,
                                        isTrustedModule(moduleAddress), depth)>>
            ELSE IF selector # <<>> /\ guardFunctionName # ""
            THEN LET decoded == decodeAddressArguments(data, 1)
                 IN IF decoded.threw
                    THEN <<Detection("guard", guardFunctionName, <<>>, FALSE, depth)>>
                    ELSE <<Detection("guard", guardFunctionName, decoded.args[1],
                                     isTrustedGuard(decoded.args[1]), depth)>>
            ELSE checkModuleGuardBatch(decodeMultiSend(data), depth)

MODULE_WARNING_UNTRUSTED == "WARNING: This transaction modifies Safe modules! Modules have unlimited access to the Safe and can execute arbitrary transactions, bypassing signature requirements. This is a significant security risk."
MODULE_WARNING_TRUSTED == "WARNING: This transaction modifies Safe modules! Even though this involves a trusted module, modules have significant power and risk. Verify the module address and ensure this change is intended."
GUARD_WARNING == "WARNING: This transaction modifies the Safe guard! Guards can block transaction execution. An improperly configured guard can cause denial of service, effectively bricking the Safe. Proceed with extreme caution!"

\* detections.filter(d => d.type === type)
RECURSIVE FilterType(_, _)
FilterType(detections, type) ==
    IF detections = <<>> THEN <<>>
    ELSE (IF Head(detections).type = type THEN <<Head(detections)>> ELSE <<>>)
             \o FilterType(Tail(detections), type)

FunctionNames(ops) == [i \in 1..Len(ops) |-> ops[i].functionName]

NoModuleGuard ==
    [hasModuleOperation |-> FALSE, hasGuardOperation |-> FALSE, detections |-> <<>>,
     warnings |-> <<>>, warningLevel |-> "info"]

\* the warning about module operations
moduleWarnings_trustedSilent(moduleOps) ==
    LET untrustedCount == Cardinality({i \in 1..Len(moduleOps) : ~moduleOps[i].isTrusted})
    IN IF Len(moduleOps) > 0 /\ untrustedCount > 0
       THEN <<<<MODULE_WARNING_UNTRUSTED, FunctionNames(moduleOps)>>>>
       ELSE <<>>

moduleWarnings(moduleOps) ==
    LET trustedCount == Cardinality({i \in 1..Len(moduleOps) : moduleOps[i].isTrusted})
        untrustedCount == Len(moduleOps) - trustedCount
    IN IF Len(moduleOps) = 0 THEN <<>>
       ELSE IF untrustedCount > 0
       THEN <<<<MODULE_WARNING_UNTRUSTED, FunctionNames(moduleOps)>>>>
       ELSE IF trustedCount > 0
       THEN <<<<MODULE_WARNING_TRUSTED, FunctionNames(moduleOps)>>>>
       ELSE <<>>

guardWarnings(guardOps) ==
    IF Len(guardOps) > 0 THEN <<<<GUARD_WARNING, FunctionNames(guardOps)>>>> ELSE <<>>

\* the result object for a non-empty list of detections
moduleGuardDetected(detections, moduleOps, guardOps) ==
    [hasModuleOperation |-> Len(moduleOps) > 0,
     hasGuardOperation |-> Len(guardOps) > 0,
     detections |-> detections,
     warnings |-> moduleWarnings(moduleOps) \o guardWarnings(guardOps),
     warningLevel |-> "high"]

\* checkModuleGuardOperations once checkTransactionData has returned
moduleGuardResult(detections) ==
    IF Len(detections) = 0 THEN NoModuleGuard
    ELSE moduleGuardDetected(detections, FilterType(detections, "module"),
                             FilterType(detections, "guard"))

checkModuleGuardOperations(data) ==
    moduleGuardResult(checkModuleGuardTransactionData(data, 0))

(***************************************************************************)
(* security/analyzer.ts                                                    *)
(***************************************************************************)
AnalysisThrew ==
    [threw |-> TRUE,
     delegateCall |-> checkDelegateCall(0, <<>>),
     gasToken |-> GasThrew,
     ownerModification |-> checkOwnerModifications(<<>>),
     moduleGuard |-> NoModuleGuard,
     overallRisk |-> Undefined,
     requiresCarefulReview |-> FALSE]

\* the cascade that picks the highest level reported by the four checks
overallRiskOf(delegateCall, gasToken, ownerModification, moduleGuard) ==
    LET AnyLevel(level) == \/ delegateCall.warningLevel = level
                           \/ gasToken.riskLevel = level
                           \/ ownerModification.warningLevel = level
                           \/ moduleGuard.warningLevel = level
    IN IF AnyLevel("critical") THEN "critical"
       ELSE IF AnyLevel("high") THEN "high"
       ELSE IF AnyLevel("medium") THEN "medium"
       ELSE IF AnyLevel("low") THEN "low"
       ELSE "none"

AnalysisResult(delegateCall, gasToken, ownerModification, moduleGuard, overallRisk, requiresCarefulReview) ==
    [threw |-> FALSE,
     delegateCall |-> delegateCall,
     gasToken |-> gasToken,
     ownerModification |-> ownerModification,
     moduleGuard |-> moduleGuard,
     overallRisk |-> overallRisk,
     requiresCarefulReview |-> requiresCarefulReview]

\* the combination leaving the module/guard level out of the cascade
combineChecks_moduleGuardIgnored(delegateCall, gasToken, ownerModification, moduleGuard) ==
    LET overallRisk == overallRiskOf(delegateCall, gasToken, ownerModification, NoModuleGuard)
    IN AnalysisResult(delegateCall, gasToken, ownerModification, moduleGuard, overallRisk,
           \/ overallRisk = "critical"
           \/ overallRisk = "high"
           \/ delegateCall.warningLevel # Undefined
           \/ Len(gasToken.warnings) > 0
           \/ ownerModification.modifiesOwners
           \/ moduleGuard.hasModuleOperation
           \/ moduleGuard.hasGuardOperation)

\* the combination asking for review at high and critical risk only
combineChecks_reviewHighOnly(delegateCall, gasToken, ownerModification, moduleGuard) ==
    LET overallRisk == overallRiskOf(delegateCall, gasToken, ownerModification, moduleGuard)
    IN AnalysisResult(delegateCall, gasToken, ownerModification, moduleGuard, overallRisk,
           overallRisk = "critical" \/ overallRisk = "high")

\* analyzeSecurity once the four checks have returned: overallRisk and
\* requiresCarefulReview
combineChecks(delegateCall, gasToken, ownerModification, moduleGuard) ==
    LET overallRisk == overallRiskOf(delegateCall, gasToken, ownerModification, moduleGuard)
    IN AnalysisResult(delegateCall, gasToken, ownerModification, moduleGuard, overallRisk,
           \/ overallRisk = "critical"
           \/ overallRisk = "high"
           \/ delegateCall.warningLevel # Undefined
           \/ Len(gasToken.warnings) > 0
           \/ ownerModification.modifiesOwners
           \/ moduleGuard.hasModuleOperation
           \/ moduleGuard.hasGuardOperation)

\* each check is called once and its result kept
analyzeSecurity(tx) ==
    CHOOSE result \in
        {IF gasToken.threw THEN AnalysisThrew
         ELSE combineChecks(delegateCall, gasToken, ownerModification, moduleGuard) :
             delegateCall \in {checkDelegateCall(tx.operation, tx.to)},
             gasToken \in {checkGasTokenAttack(tx.gasPrice, tx.gasToken, tx.refundReceiver)},
             ownerModification \in {checkOwnerModifications(tx.data)},
             moduleGuard \in {checkModuleGuardOperations(tx.data)}} : TRUE

(***************************************************************************)
(* Inputs of the security checks                                           *)
(*                                                                         *)
(* Call data is built from a description of what it holds: a plain call    *)
(* (named by its kind) or a multiSend batch of described sub-calls.        *)
(***************************************************************************)
UntrustedModule == <<15, 6, 5, 4, 7, 5, 14, 7, 4, 12, 1, 14, 13, 6, 13, 0, 0, 4, 13, 5, 2, 4, 0, 11, 0, 6, 14, 3, 0, 8, 8, 7, 2, 4, 13, 15, 13, 10, 5, 13>>

Leaf(kind) == [kind |-> kind, items |-> <<>>]

Batch(items) == [kind |-> "batch", items |-> items]

Item(operation, to, tree) == [operation |-> operation, to |-> to, tree |-> tree]

OwnerKinds == {"addOwnerWithThreshold", "removeOwner", "swapOwner", "changeThreshold",
               "changeThresholdSelectorOnly"}

ModuleKinds == {"enableModuleTrusted", "enableModuleUntrusted", "enableModuleTruncated",
                "disableModuleTrusted", "disableModuleUntrusted"}

GuardKinds == {"setGuard"}

LeafKinds == {"empty", "transfer", "short", "emptyBatch"}
                 \cup OwnerKinds \cup ModuleKinds \cup GuardKinds

AddressWord(address) == PadHex(ToLower(address), 32)

\* the call data of a plain call
LeafData(kind) ==
    CASE kind = "empty" -> <<>>
      [] kind = "transfer" ->
             <<10, 9, 0, 5, 9, 12, 11, 11>> \o AddressWord(ToA) \o PadHex(NatToHex(1000), 32)
      [] kind = "short" -> <<0, 13, 5, 8>>
      [] kind = "emptyBatch" -> EncodeMultiSend(<<>>)
      [] kind = "addOwnerWithThreshold" ->
             <<0, 13, 5, 8, 2, 15, 1, 3>> \o AddressWord(ToB) \o PadHex(<<2>>, 32)
      [] kind = "removeOwner" ->
             <<15, 8, 13, 12, 5, 13, 13, 9>> \o AddressWord(ToA) \o AddressWord(ToB)
                 \o PadHex(<<1>>, 32)
      [] kind = "swapOwner" ->
             <<14, 3, 1, 8, 11, 5, 2, 11>> \o AddressWord(ToA) \o AddressWord(ToB)
                 \o AddressWord(UntrustedModule)
      [] kind = "changeThreshold" -> <<6, 9, 4, 14, 8, 0, 12, 3>> \o PadHex(<<3>>, 32)
      [] kind = "changeThresholdSelectorOnly" -> <<6, 9, 4, 14, 8, 0, 12, 3>>
      [] kind = "enableModuleTrusted" ->
             <<6, 1, 0, 11, 5, 9, 2, 5>> \o AddressWord(TRUSTED_MODULES[1])
      [] kind = "enableModuleUntrusted" ->
             <<6, 1, 0, 11, 5, 9, 2, 5>> \o AddressWord(UntrustedModule)
      [] kind = "enableModuleTruncated" -> <<6, 1, 0, 11, 5, 9, 2, 5>>
      [] kind = "disableModuleTrusted" ->
             <<14, 0, 0, 9, 12, 15, 13, 14>> \o AddressWord(UntrustedModule)
                 \o AddressWord(TRUSTED_MODULES[1])
      [] kind = "disableModuleUntrusted" ->
             <<14, 0, 0, 9, 12, 15, 13, 14>> \o AddressWord(TRUSTED_MODULES[1])
                 \o AddressWord(UntrustedModule)
      [] kind = "setGuard" -> <<14, 1, 9, 10, 9, 13, 13, 9>> \o AddressWord(ToB)

\* the call data a description stands for: a batch is the multiSend call
\* of its packed sub-calls
RECURSIVE BuildTree(_)
BuildTree(tree) ==
    IF tree.kind # "batch" THEN LeafData(tree.kind)
    ELSE EncodeMultiSend(PackTransactions(
             [i \in 1..Len(tree.items) |->
                 [operation |-> tree.items[i].operation,
                  to |-> tree.items[i].to,
                  value |-> <<>>,
                  data |-> BuildTree(tree.items[i].tree)]]))

\* sub-calls placed beside another one in a batch: a delegate call to an
\* address outside the allow-list, and a call that removes an owner
DelegateSibling == Item(1, ToB, Leaf("transfer"))

OwnerSibling == Item(0, ToA, Leaf("removeOwner"))

Siblings == {DelegateSibling, OwnerSibling}

RECURSIVE TreesAt(_)
TreesAt(d) ==
    IF d = 0 THEN {Leaf(k) : k \in LeafKinds}
    ELSE LET inner == TreesAt(d - 1)
         IN {Batch(<<Item(0, ToA, t)>>) : t \in inner}
                \cup {Batch(<<Item(0, ToA, t), s>>) : t \in inner, s \in Siblings}
                \cup {Batch(<<s, Item(0, ToA, t)>>) : t \in inner, s \in Siblings}

SecTrees == UNION {TreesAt(d) : d \in 0..MaxNesting}

\* descriptions combined with every choice of the other transaction fields
AnalysisTrees ==
    {Leaf("empty"), Leaf("transfer"), Leaf("swapOwner"), Leaf("setGuard"),
     Batch(<<Item(0, ToA, Leaf("transfer")), DelegateSibling>>),
     Batch(<<Item(0, ToA, Leaf("enableModuleTrusted")), OwnerSibling>>)}

GasPrices == {<<"dec", 0>>, <<"dec", 1000000000>>, <<"big", <<>>>>, <<"big", <<5>>>>}

\* to, operation, gasPrice, gasToken and refundReceiver of the transaction
TxFields ==
    [to : {MULTISEND_CALL_ONLY[1], ToLower(MULTISEND_CALL_ONLY[1]),
           ToUpper(SAFE_MIGRATION[1]), ToB},
     operation : {0, 1, 2},
     gasPrice : GasPrices,
     gasToken : {ZERO_ADDRESS_HEX, ToA},
     refundReceiver : {ZERO_ADDRESS_HEX, ToB}]

DefaultFields ==
    [to |-> ToB, operation |-> 0, gasPrice |-> <<"dec", 0>>,
     gasToken |-> ZERO_ADDRESS_HEX, refundReceiver |-> ZERO_ADDRESS_HEX]

SecTxOf(fields, data) ==
    [to |-> fields.to, operation |-> fields.operation, gasPrice |-> fields.gasPrice,
     gasToken |-> fields.gasToken, refundReceiver |-> fields.refundReceiver,
     data |-> data]

NoSecResult == [pending |-> TRUE]

\* every description in both spellings with the default fields, and the
\* descriptions of AnalysisTrees with every choice of the fields
SecInputs ==
    (SecTrees \X {"lower", "upper"} \X {DefaultFields})
        \cup (AnalysisTrees \X {"lower"} \X TxFields)

SecInit ==
    /\ \E in \in SecInputs :
           /\ secTree = in[1]
           /\ secSpelling = in[2]
           /\ secTx = SecTxOf(in[3], IF in[2] = "upper" THEN ToUpper(BuildTree(in[1]))
                                     ELSE BuildTree(in[1]))
    /\ secOp = "none"
    /\ secResult = NoSecResult

CallCheckDelegateCall ==
    /\ secOp = "none"
    /\ secOp' = "checkDelegateCall"
    /\ secResult' = checkDelegateCall(secTx.operation, secTx.to)
    /\ UNCHANGED <<secTree, secSpelling, secTx, hashVars, msVars, verVars, appVars, uiVars>>

CallCheckGasTokenAttack ==
    /\ secOp = "none"
    /\ secOp' = "checkGasTokenAttack"
    /\ secResult' = checkGasTokenAttack(secTx.gasPrice, secTx.gasToken,
                                        secTx.refundReceiver)
    /\ UNCHANGED <<secTree, secSpelling, secTx, hashVars, msVars, verVars, appVars, uiVars>>

CallCheckOwnerModifications ==
    /\ secOp = "none"
    /\ secOp' = "checkOwnerModifications"
    /\ secResult' = checkOwnerModifications(secTx.data)
    /\ UNCHANGED <<secTree, secSpelling, secTx, hashVars, msVars, verVars, appVars, uiVars>>

CallCheckModuleGuardOperations ==
    /\ secOp = "none"
    /\ secOp' = "checkModuleGuardOperations"
    /\ secResult' = checkModuleGuardOperations(secTx.data)
    /\ UNCHANGED <<secTree, secSpelling, secTx, hashVars, msVars, verVars, appVars, uiVars>>

CallAnalyzeSecurity ==
    /\ secOp = "none"
    /\ secOp' = "analyzeSecurity"
    /\ secResult' = analyzeSecurity(secTx)
    /\ UNCHANGED <<secTree, secSpelling, secTx, hashVars, msVars, verVars, appVars, uiVars>>

SecNext ==
    \/ CallCheckDelegateCall
    \/ CallCheckGasTokenAttack
    \/ CallCheckOwnerModifications
    \/ CallCheckModuleGuardOperations
    \/ CallAnalyzeSecurity

\* the security checks when another component is exercised
SecIdle ==
    /\ secTree = Leaf("empty")
    /\ secSpelling = "lower"
    /\ secTx = SecTxOf(DefaultFields, <<>>)
    /\ secOp = "none"
    /\ secResult = NoSecResult

(***************************************************************************)
(* The verify command: hash calculation and verification block             *)
(***************************************************************************)
\* a hash as the string the program handles: the digest and how its hex
\* digits are spelled; viem returns lower-case strings
HashString(hash, spelling) == [missing |-> FALSE, value |-> hash, spelling |-> spelling]

\* a transaction record without a safeTxHash field
MissingHash == [missing |-> TRUE, value |-> NoHash, spelling |-> "lower"]

toLowerCase(str) == [str EXCEPT !.spelling = "lower"]

verifySafeTxHash_spellingOnly(calculated, expected) ==
    toLowerCase(calculated).spelling = toLowerCase(expected).spelling

\* calculated.toLowerCase() === expected.toLowerCase()
verifySafeTxHash(calculated, expected) ==
    toLowerCase(calculated) = toLowerCase(expected)

LINE_VERIFIED == "HASH VERIFIED: Calculated hash matches API hash"
LINE_SAFE_TO_SIGN == "It is safe to sign this transaction if all parameters are correct."
LINE_MISMATCH == "HASH MISMATCH: Calculated hash does NOT match API hash"
LINE_DO_NOT_SIGN == "DO NOT SIGN THIS TRANSACTION!"
LINE_FAILED == "Hash calculation failed"
LINE_CAUTION == "Cannot verify transaction hash - proceed with caution!"

printHashVerification(isValid) ==
    IF isValid THEN <<LINE_VERIFIED, LINE_SAFE_TO_SIGN>>
    ELSE <<LINE_MISMATCH, LINE_DO_NOT_SIGN>>

\* version = jsonData.version || '1.3.0' in local mode, the fetched
\* version in API mode
LoadedVersion(mode, v) ==
    IF mode = "file" /\ v = <<>> THEN <<"1", ".", "3", ".", "0">> ELSE v

OtherHash == keccak256(<<Byte(0)>>)

\* the safeTxHash that comes with the transaction, relative to the hash of
\* the transaction's fields
ApiHashOf(kind, calculated) ==
    CASE kind = "same" -> HashString(calculated.safeTxHash, "lower")
      [] kind = "sameUpper" -> HashString(calculated.safeTxHash, "upper")
      [] kind = "other" -> HashString(OtherHash, "lower")
      [] kind = "domainHash" -> HashString(calculated.domainHash, "lower")
      [] kind = "missing" -> MissingHash

ApiKinds == {"same", "sameUpper", "other", "domainHash", "missing"}

CmdTxRecords ==
    [to : {4660}, value : {0, 1}, data : {<<>>, <<Byte(1)>>},
     operation : {0}, safeTxGas : {0}, baseGas : {0}, gasPrice : {0},
     gasToken : {ZERO_ADDRESS}, refundReceiver : {ZERO_ADDRESS}, nonce : {434}]

CmdInit ==
    /\ chainId \in ChainIds
    /\ safeAddress \in SafeAddresses
    /\ txData \in CmdTxRecords
    /\ vBase \in Bases
    /\ vTag \in Tags
    /\ version = vBase.str \o vTag
    /\ hashOp = "none"
    /\ hashResult = NoResult
    /\ cmpResult = 0
    /\ cmdMode = "none"
    /\ cmdApiKind = "none"
    /\ cmdVersion = <<>>
    /\ cmdApiHash = MissingHash
    /\ cmdPc = "load"
    /\ cmdHash = NoResult
    /\ cmdOutput = <<>>

\* the transaction and the version are read from the file or fetched
CmdLoad ==
    /\ cmdPc = "load"
    /\ \E mode \in {"file", "api"}, kind \in ApiKinds :
           /\ cmdMode' = mode
           /\ cmdApiKind' = kind
           /\ cmdVersion' = LoadedVersion(mode, version)
           /\ cmdApiHash' = ApiHashOf(kind, calculateSafeTxHash(chainId, safeAddress, txData,
                                                               LoadedVersion(mode, version)))
    /\ cmdPc' = "hash"
    /\ UNCHANGED <<cmdHash, cmdOutput, coreVars, regVars, uwVars, uiVars>>

\* const hashResult = calculateSafeTxHash(...), or the catch block
CmdCalculateHash ==
    /\ cmdPc = "hash"
    /\ cmdHash' = calculateSafeTxHash(chainId, safeAddress, txData, cmdVersion)
    /\ IF cmdHash'.threw
       THEN /\ cmdOutput' = cmdOutput \o <<LINE_FAILED, LINE_CAUTION>>
            /\ cmdPc' = "done"
       ELSE /\ cmdOutput' = cmdOutput
            /\ cmdPc' = "verify"
    /\ UNCHANGED <<cmdMode, cmdApiKind, cmdVersion, cmdApiHash, coreVars, regVars, uwVars, uiVars>>

\* verifySafeTxHash and printHashVerification, or the catch block when
\* tx.safeTxHash is no string
CmdVerifyHash ==
    /\ cmdPc = "verify"
    /\ cmdOutput' =
           IF cmdApiHash.missing THEN cmdOutput \o <<LINE_FAILED, LINE_CAUTION>>
           ELSE cmdOutput \o printHashVerification(
                    verifySafeTxHash(HashString(cmdHash.safeTxHash, "lower"), cmdApiHash))
    /\ cmdPc' = "done"
    /\ UNCHANGED <<cmdMode, cmdApiKind, cmdVersion, cmdApiHash, cmdHash, coreVars, regVars, uwVars, uiVars>>

CmdNext ==
    \/ CmdLoad
    \/ CmdCalculateHash
    \/ CmdVerifyHash

CmdIdle ==
    /\ cmdMode = "none"
    /\ cmdApiKind = "none"
    /\ cmdVersion = <<>>
    /\ cmdApiHash = MissingHash
    /\ cmdPc = "idle"
    /\ cmdHash = NoResult
    /\ cmdOutput = <<>>

(***************************************************************************)
(* DecoderRegistry                                                         *)
(***************************************************************************)
\* a CustomDecoder as the registry sees it: its readonly fields and what
\* its canDecode and decode methods do when called
Decoder(id, address, network, can, dec) ==
    [id |-> id, contractAddress |-> address, network |-> network,
     canDecode |-> can, decode |-> dec]

\* the value `undefined` where a decoder is expected
NoDecoder == Decoder(0, <<>>, Undefined, "false", "returns")

\* a string that is neither undefined nor ''
Truthy(str) == str \notin {Undefined, ""}

makeKey_caseSensitive(address, network) ==
    IF Truthy(network) THEN <<network, address>> ELSE <<"", address>>

\* network ? `${network}:${normalizedAddress}` : normalizedAddress
makeKey(address, network) ==
    IF Truthy(network) THEN <<network, ToLower(address)>> ELSE <<"", ToLower(address)>>

\* Map.set
MapSet(map, key, value) ==
    [k \in DOMAIN map \cup {key} |-> IF k = key THEN value ELSE map[k]]

\* Map.get, NoDecoder standing for undefined
MapGet(map, key) == IF key \in DOMAIN map THEN map[key] ELSE NoDecoder

register(map, decoder) ==
    MapSet(map, makeKey(decoder.contractAddress, decoder.network), decoder)

getDecoder_genericFirst(map, address, network) ==
    IF MapGet(map, makeKey(address, Undefined)) # NoDecoder
    THEN MapGet(map, makeKey(address, Undefined))
    ELSE MapGet(map, makeKey(address, network))

getDecoder(map, address, network) ==
    IF Truthy(network) /\ MapGet(map, makeKey(address, network)) # NoDecoder
    THEN MapGet(map, makeKey(address, network))
    ELSE MapGet(map, makeKey(address, Undefined))

\* what a registry method gave back: it threw, or it returned a decoder, a
\* decoded transaction (named by the decoder that made it) or undefined
RegReturn(decoder, decodedBy) == [threw |-> FALSE, decoder |-> decoder, decodedBy |-> decodedBy]

RegThrew == [threw |-> TRUE, decoder |-> NoDecoder, decodedBy |-> 0]

decodeWith(decoder) ==
    IF decoder = NoDecoder THEN RegReturn(NoDecoder, 0)
    ELSE IF decoder.canDecode = "throws" THEN RegThrew
    ELSE IF decoder.canDecode = "false" THEN RegReturn(NoDecoder, 0)
    ELSE IF decoder.decode = "throws" THEN RegReturn(NoDecoder, 0)
    ELSE RegReturn(NoDecoder, decoder.id)

decode(map, to, network) == decodeWith(getDecoder(map, to, network))

RegAddresses == {ToLower(ToA), ToA, ToB}

RegNetworks == {Undefined, "ethereum", "sepolia"}

QueryNetworks == RegNetworks \cup {""}

Behaviours == {<<"true", "returns">>, <<"true", "throws">>, <<"false", "returns">>,
               <<"throws", "returns">>}

NoArgs == [address |-> <<>>, network |-> Undefined]

EmptyMap == [k \in {} |-> NoDecoder]

RegInit ==
    /\ regDecoders = EmptyMap
    /\ regLog = <<>>
    /\ regOp = "none"
    /\ regArgs = NoArgs
    /\ regResult = RegReturn(NoDecoder, 0)

CallRegister ==
    /\ regOp = "none"
    /\ Len(regLog) < MaxRegisters
    /\ \E address \in RegAddresses, network \in RegNetworks, b \in Behaviours :
           /\ regDecoders' = register(regDecoders,
                                      Decoder(Len(regLog) + 1, address, network, b[1], b[2]))
           /\ regLog' = Append(regLog, Decoder(Len(regLog) + 1, address, network, b[1], b[2]))
    /\ UNCHANGED <<regOp, regArgs, regResult, coreVars, cmdVars, uwVars, uiVars>>

CallGetDecoder ==
    /\ regOp = "none"
    /\ \E address \in RegAddresses, network \in QueryNetworks :
           /\ regArgs' = [address |-> address, network |-> network]
           /\ regResult' = RegReturn(getDecoder(regDecoders, address, network), 0)
    /\ regOp' = "getDecoder"
    /\ UNCHANGED <<regDecoders, regLog, coreVars, cmdVars, uwVars, uiVars>>

CallDecode ==
    /\ regOp = "none"
    /\ \E address \in RegAddresses, network \in QueryNetworks :
           /\ regArgs' = [address |-> address, network |-> network]
           /\ regResult' = decode(regDecoders, address, network)
    /\ regOp' = "decode"
    /\ UNCHANGED <<regDecoders, regLog, coreVars, cmdVars, uwVars, uiVars>>

RegNext ==
    \/ CallRegister
    \/ CallGetDecoder
    \/ CallDecode

RegIdle ==
    /\ regDecoders = EmptyMap
    /\ regLog = <<>>
    /\ regOp = "idle"
    /\ regArgs = NoArgs
    /\ regResult = RegReturn(NoDecoder, 0)

(***************************************************************************)
(* Batch unwinding step by step: the while loop of decodeMultiSend and the *)
(* recursion of checkTransactionData (owner-checks.ts)                     *)
(***************************************************************************)
readRecord_noData(packedData, offset) ==
    LET operation == ParseInt16(JsSlice(packedData, offset, offset + 2))
        to == JsSlice(packedData, offset + 2, offset + 42)
        valueHex == JsSlice(packedData, offset + 42, offset + 106)
        dataLengthHex == JsSlice(packedData, offset + 106, offset + 170)
        dataLength == ParseInt16(dataLengthHex)
        end == IF dataLength = NaN THEN NaN ELSE offset + dataLength * 2
        txBytes == JsSlice(packedData, offset + 170, end)
    IN [threw |-> valueHex = <<>>,
        tx |-> [operation |-> operation, to |-> to,
                value |-> IF valueHex = <<>> THEN <<>> ELSE BigIntOfHex(valueHex),
                data |-> txBytes],
        end |-> end]

\* one pass through the body of the while loop: the record read at offset
\* and the offset after it, or the throw of BigInt('0x')
readRecord(packedData, offset) ==
    LET operation == ParseInt16(JsSlice(packedData, offset, offset + 2))
        to == JsSlice(packedData, offset + 2, offset + 42)
        valueHex == JsSlice(packedData, offset + 42, offset + 106)
        dataLengthHex == JsSlice(packedData, offset + 106, offset + 170)
        dataLength == ParseInt16(dataLengthHex)
        end == IF dataLength = NaN THEN NaN ELSE offset + 170 + dataLength * 2
        txBytes == JsSlice(packedData, offset + 170, end)
    IN [threw |-> valueHex = <<>>,
        tx |-> [operation |-> operation, to |-> to,
                value |-> IF valueHex = <<>> THEN <<>> ELSE BigIntOfHex(valueHex),
                data |-> txBytes],
        end |-> end]

Frame(data, depth) == [data |-> data, depth |-> depth]

NoFrame == Frame(<<>>, 0)

\* the call data unwound: well-formed descriptions, and batches whose blob
\* is cut short or whose length word is too large
UwInputs ==
    {<<tree.kind, BuildTree(tree)>> : tree \in SecTrees}
        \cup {<<"cutBlob", BuildData("cutBlob", in[1], in[2])>> :
                 in \in {x \in CallSeqs \X CutPoints :
                            2 * x[2] < Len(PackTransactions(x[1]))}}
        \cup {<<"badLength", BuildData("badLength", calls, 0)>> : calls \in CallSeqs}

\* plain calls that are also explored under many batches
WrappedKinds == {"transfer", "removeOwner", "setGuard"}

UwInit ==
    /\ \E in \in UwInputs :
           /\ uwSeed = in[1]
           /\ uwData = in[2]
    /\ uwWraps = 0
    /\ uwStack = <<>>
    /\ uwFrame = NoFrame
    /\ uwPacked = <<>>
    /\ uwOffset = 0
    /\ uwTxs = <<>>
    /\ uwPc = "input"
    /\ uwFound = <<>>
    /\ uwDetections = <<>>

\* the proposer puts the call into a batch of its own before proposing it
UwWrap ==
    /\ uwPc = "input"
    /\ uwSeed \in WrappedKinds
    /\ uwWraps < DeepNesting
    /\ uwData' = EncodeMultiSend(PackTransaction(
                     [operation |-> 0, to |-> ToA, value |-> <<>>, data |-> uwData]))
    /\ uwWraps' = uwWraps + 1
    /\ UNCHANGED <<uwSeed, uwStack, uwFrame, uwPacked, uwOffset, uwTxs, uwPc, uwFound,
                   uwDetections, coreVars, cmdVars, regVars, uiVars>>

\* checkOwnerModifications(data) and checkModuleGuardOperations(data) call
\* checkTransactionData(data, 0)
UwStart ==
    /\ uwPc = "input"
    /\ uwStack' = <<Frame(uwData, 0)>>
    /\ uwPc' = "call"
    /\ UNCHANGED <<uwSeed, uwWraps, uwData, uwFrame, uwPacked, uwOffset, uwTxs, uwFound,
                   uwDetections, coreVars, cmdVars, regVars, uiVars>>

\* what UwCall does with the call on top of the stack: the modification or
\* operation it reports, and the blob to loop over when the data is a batch
CallOutcome(data, depth, functionName, decoded) ==
    [found |-> IF data # <<>> /\ functionName # ""
               THEN <<[functionName |-> functionName, isNested |-> depth > 0,
                       depth |-> depth]>>
               ELSE <<>>,
     detections |-> IF data = <<>> \/ ~decoded.threw THEN <<>>
                    ELSE checkModuleGuardTransactionData(data, depth),
     isBatch |-> data # <<>> /\ functionName = "" /\ ~decoded.threw,
     packed |-> IF decoded.threw THEN <<>> ELSE decoded.packed]

UwOutcome ==
    CallOutcome(Head(uwStack).data, Head(uwStack).depth,
                SelectorName(OWNER_MODIFICATION_SELECTORS,
                             getFunctionSelector(Head(uwStack).data)),
                decodeFunctionData(Head(uwStack).data))

\* checkTransactionData(data, depth) up to the call of decodeMultiSend and
\* the decodeFunctionData in it. Both checkTransactionData functions walk
\* the batches the same way (neither selector table holds multiSend's), so
\* one walk collects what each of them reports
UwCall ==
    /\ uwPc = "call"
    /\ uwStack # <<>>
    /\ uwStack' = Tail(uwStack)
    /\ uwFound' = uwFound \o UwOutcome.found
    /\ uwDetections' = uwDetections \o UwOutcome.detections
    /\ IF UwOutcome.isBatch
       THEN /\ uwPc' = "loop"
            /\ uwFrame' = Head(uwStack)
            /\ uwPacked' = UwOutcome.packed
       ELSE /\ uwPc' = "call"
            /\ uwFrame' = NoFrame
            /\ uwPacked' = <<>>
    /\ uwOffset' = 0
    /\ uwTxs' = <<>>
    /\ UNCHANGED <<uwSeed, uwWraps, uwData, coreVars, cmdVars, regVars, uiVars>>

\* while (offset < packedData.length) { ... transactions.push(...) }, one
\* pass; a throw in the body makes decodeMultiSend return null
UwLoopRead ==
    /\ uwPc = "loop"
    /\ uwOffset # NaN
    /\ uwOffset < Len(uwPacked)
    /\ IF readRecord(uwPacked, uwOffset).threw
       THEN /\ uwPc' = "call"
            /\ uwFrame' = NoFrame
            /\ uwPacked' = <<>>
            /\ uwOffset' = 0
            /\ uwTxs' = <<>>
       ELSE /\ uwPc' = "loop"
            /\ uwOffset' = readRecord(uwPacked, uwOffset).end
            /\ uwTxs' = Append(uwTxs, readRecord(uwPacked, uwOffset).tx)
            /\ UNCHANGED <<uwFrame, uwPacked>>
    /\ UNCHANGED <<uwSeed, uwWraps, uwData, uwStack, uwFound, uwDetections,
                   coreVars, cmdVars, regVars, uiVars>>

\* the loop test fails: decodeMultiSend returns the list, and the for loop
\* calls checkTransactionData(tx.data, depth + 1) for each record in order
UwLoopEnd ==
    /\ uwPc = "loop"
    /\ ~(uwOffset # NaN /\ uwOffset < Len(uwPacked))
    /\ uwStack' = [i \in 1..Len(uwTxs) |-> Frame(uwTxs[i].data, uwFrame.depth + 1)] \o uwStack
    /\ uwPc' = "call"
    /\ uwFrame' = NoFrame
    /\ uwPacked' = <<>>
    /\ uwOffset' = 0
    /\ uwTxs' = <<>>
    /\ UNCHANGED <<uwSeed, uwWraps, uwData, uwFound, uwDetections, coreVars, cmdVars, regVars, uiVars>>

\* the outermost checkTransactionData returns
UwReturn ==
    /\ uwPc = "call"
    /\ uwStack = <<>>
    /\ uwPc' = "done"
    /\ UNCHANGED <<uwSeed, uwWraps, uwData, uwStack, uwFrame, uwPacked, uwOffset, uwTxs,
                   uwFound, uwDetections, coreVars, cmdVars, regVars, uiVars>>

\* the steps of the program, and the steps of the proposer
UwRun ==
    \/ UwStart
    \/ UwCall
    \/ UwLoopRead
    \/ UwLoopEnd
    \/ UwReturn

UwNext ==
    \/ UwWrap
    \/ UwRun

UwIdle ==
    /\ uwSeed = "empty"
    /\ uwWraps = 0
    /\ uwData = <<>>
    /\ uwStack = <<>>
    /\ uwFrame = NoFrame
    /\ uwPacked = <<>>
    /\ uwOffset = 0
    /\ uwTxs = <<>>
    /\ uwPc = "idle"
    /\ uwFound = <<>>
    /\ uwDetections = <<>>

(***************************************************************************)
(* retryWithBackoff (Safe API client), one step per await                  *)
(***************************************************************************)
ApiError(safeApi, statusCode, message) == [safeApi |-> safeApi, statusCode |-> statusCode, message |-> message]

\* the value of lastError before any attempt failed
NoApiError == ApiError(FALSE, <<>>, <<>>)

\* errors fn rejects with: SafeApiError or another Error, the status code
\* if it has one, and the words of its message
RbErrors ==
    {ApiError(TRUE, <<429>>, <<"Safe", "API", "request", "failed:", "Too", "Many", "Requests">>),
     ApiError(TRUE, <<>>, <<"Failed", "to", "fetch", "transaction:", "Rate", "Limit", "exceeded">>),
     ApiError(TRUE, <<500>>, <<"Safe", "API", "request", "failed:", "Internal", "Server", "Error">>),
     ApiError(TRUE, <<>>, <<"No", "transaction", "found">>),
     ApiError(FALSE, <<>>, <<"rate", "limit">>)}

LowerWord(w) ==
    CASE w = "Rate" -> "rate"
      [] w = "Limit" -> "limit"
      [] w = "Safe" -> "safe"
      [] w = "API" -> "api"
      [] w = "Too" -> "too"
      [] w = "Many" -> "many"
      [] w = "Requests" -> "requests"
      [] w = "Failed" -> "failed"
      [] w = "Internal" -> "internal"
      [] w = "Server" -> "server"
      [] w = "Error" -> "error"
      [] w = "No" -> "no"
      [] OTHER -> w

\* message.toLowerCase().includes(words)
LowerIncludes(message, words) ==
    \E i \in 0..(Len(message) - Len(words)) :
        \A j \in 1..Len(words) : LowerWord(message[i + j]) = words[j]

isRateLimit(error) ==
    /\ error.safeApi
    /\ (error.statusCode = <<429>> \/ LowerIncludes(error.message, <<"rate", "limit">>))

\* the catch block giving up on a failed attempt only when the error is
\* not a rate limit
rethrows_neverOnLastAttempt(error, attempt, maxRetries) ==
    ~isRateLimit(error)

\* if (!isRateLimit || attempt === maxRetries) throw error
rethrows(error, attempt, maxRetries) ==
    ~isRateLimit(error) \/ attempt = maxRetries

\* initialDelay * Math.pow(2, attempt)
backoffDelay(initialDelay, attempt) == initialDelay * 2 ^ attempt

\* how one call of fn settled
Settled(how, error) == [how |-> how, error |-> error]

Notification(attempt, maxRetries, delay) == [attempt |-> attempt, maxRetries |-> maxRetries, delay |-> delay]

Pending == [kind |-> "pending", error |-> NoApiError]

RbInit ==
    /\ rbMaxRetries \in (0 - 1)..MaxRetries
    /\ rbInitialDelay \in {1000, 250}
    /\ rbHasOnRetry \in BOOLEAN
    /\ rbAttempt = 0
    /\ rbLastError = NoApiError
    /\ rbPc = "loop"
    /\ rbLog = <<>>
    /\ rbNotified = <<>>
    /\ rbWaits = <<>>
    /\ rbOutcome = Pending

\* attempt <= maxRetries: fn is called and awaited
RbCallFn ==
    /\ rbPc = "loop"
    /\ rbAttempt <= rbMaxRetries
    /\ rbPc' = "awaitFn"
    /\ UNCHANGED <<rbMaxRetries, rbInitialDelay, rbHasOnRetry, rbAttempt, rbLastError, rbLog,
                   rbNotified, rbWaits, rbOutcome, coreVars, appVars, taVars>>

\* the loop test fails: throw lastError
RbLoopExit ==
    /\ rbPc = "loop"
    /\ rbAttempt > rbMaxRetries
    /\ rbPc' = "done"
    /\ rbOutcome' = [kind |-> "threw", error |-> rbLastError]
    /\ UNCHANGED <<rbMaxRetries, rbInitialDelay, rbHasOnRetry, rbAttempt, rbLastError, rbLog,
                   rbNotified, rbWaits, coreVars, appVars, taVars>>

\* fn resolves: return await fn()
RbResolved ==
    /\ rbPc = "awaitFn"
    /\ rbLog' = Append(rbLog, Settled("resolved", NoApiError))
    /\ rbPc' = "done"
    /\ rbOutcome' = [kind |-> "returned", error |-> NoApiError]
    /\ UNCHANGED <<rbMaxRetries, rbInitialDelay, rbHasOnRetry, rbAttempt, rbLastError,
                   rbNotified, rbWaits, coreVars, appVars, taVars>>

\* fn rejects: the catch block, up to its throw or its await of the timer
RbRejected ==
    /\ rbPc = "awaitFn"
    /\ \E error \in RbErrors :
           /\ rbLog' = Append(rbLog, Settled("rejected", error))
           /\ rbLastError' = error
           /\ IF rethrows(error, rbAttempt, rbMaxRetries)
              THEN /\ rbPc' = "done"
                   /\ rbOutcome' = [kind |-> "threw", error |-> error]
                   /\ UNCHANGED <<rbNotified, rbWaits>>
              ELSE /\ rbPc' = "awaitTimer"
                   /\ rbNotified' =
                          IF rbHasOnRetry
                          THEN Append(rbNotified,
                                      Notification(rbAttempt + 1, rbMaxRetries,
                                                   backoffDelay(rbInitialDelay, rbAttempt)))
                          ELSE rbNotified
                   /\ rbWaits' = Append(rbWaits, backoffDelay(rbInitialDelay, rbAttempt))
                   /\ UNCHANGED rbOutcome
    /\ UNCHANGED <<rbMaxRetries, rbInitialDelay, rbHasOnRetry, rbAttempt, coreVars, appVars, taVars>>

\* the timer fires: attempt++ and the loop test again
RbTimerFired ==
    /\ rbPc = "awaitTimer"
    /\ rbAttempt' = rbAttempt + 1
    /\ rbPc' = "loop"
    /\ UNCHANGED <<rbMaxRetries, rbInitialDelay, rbHasOnRetry, rbLastError, rbLog,
                   rbNotified, rbWaits, rbOutcome, coreVars, appVars, taVars>>

RbNext ==
    \/ RbCallFn
    \/ RbLoopExit
    \/ RbResolved
    \/ RbRejected
    \/ RbTimerFired

RbIdle ==
    /\ rbMaxRetries = 0
    /\ rbInitialDelay = 0
    /\ rbHasOnRetry = FALSE
    /\ rbAttempt = 0
    /\ rbLastError = NoApiError
    /\ rbPc = "idle"
    /\ rbLog = <<>>
    /\ rbNotified = <<>>
    /\ rbWaits = <<>>
    /\ rbOutcome = Pending

(***************************************************************************)
(* TransactionAnalysis view (ui/src/routes/TransactionAnalysis.tsx): the   *)
(* effect that runs fetchAndAnalyze on every change of the route           *)
(* parameters, one step per await                                          *)
(***************************************************************************)
ApiTx(safeTxHash, nonce, hasData, multiSend, nested, custom, dataDecoded) == [safeTxHash |-> safeTxHash, nonce |-> nonce, hasData |-> hasData, multiSend |-> multiSend, nested |-> nested, custom |-> custom, dataDecoded |-> dataDecoded]

\* the proposals the Safe Transaction Service holds for the Safe: what
\* isMultiSend, decodeMultiSend and decoderRegistry.decode make of the data
\* of each, and whether the service sent a dataDecoded with it
TxA == ApiTx("0xaa", 7, TRUE, FALSE, FALSE, TRUE, TRUE)

TxB == ApiTx("0xbb", 7, TRUE, TRUE, TRUE, FALSE, TRUE)

TxC == ApiTx("0xcc", 8, TRUE, FALSE, FALSE, FALSE, TRUE)

TxD == ApiTx("0xdd", 8, FALSE, FALSE, FALSE, FALSE, FALSE)

ServiceTxs == <<TxA, TxB, TxC, TxD>>

NoTx == ApiTx("", 0, FALSE, FALSE, FALSE, FALSE, FALSE)

Route(nonce, safeTxHashParam) == [nonce |-> nonce, safeTxHashParam |-> safeTxHashParam]

\* an absent safeTxHash query parameter is null
Routes == {Route(7, "null"), Route(7, "0xbb"), Route(8, "null"), Route(8, "0xdd")}

\* data.results of GET multisig-transactions/?nonce=
ResultsFor(nonce) == SelectSeq(ServiceTxs, LAMBDA t : t.nonce = nonce)

\* transactions.find(t => t.safeTxHash === safeTxHashParam) || transactions[0]
selectTx(transactions, safeTxHashParam) ==
    IF safeTxHashParam # "null" /\ \E i \in 1..Len(transactions) : transactions[i].safeTxHash = safeTxHashParam
    THEN transactions[CHOOSE i \in 1..Len(transactions) :
                          /\ transactions[i].safeTxHash = safeTxHashParam
                          /\ \A j \in 1..(i - 1) : transactions[j].safeTxHash # safeTxHashParam]
    ELSE transactions[1]

\* a value of the view's state and the transaction it was computed from
Null == [isNull |-> TRUE, of |-> ""]

Computed(tx) == [isNull |-> FALSE, of |-> tx.safeTxHash]

RATE_LIMITED_TEXT == "Rate limited by Safe API. Please try again in a moment. Safe rate limits the public API for security."

\* errors that reach the catch block of fetchAndAnalyze
TaErrors ==
    {ApiError(TRUE, <<>>, <<"No", "transaction", "found">>),
     ApiError(TRUE, <<>>, <<"Failed", "to", "fetch", "transaction:", "Rate", "Limit", "exceeded">>)}

\* the message the catch block shows
errorMessage(err) ==
    IF LowerIncludes(err.message, <<"rate", "limit">>) THEN <<RATE_LIMITED_TEXT>> ELSE err.message

\* versions fetchSafeVersion resolves with; calculateSafeTxHash throws on
\* the second
TaVersions == {"1.3.0", "0.0.1"}

Run(route, pc, tx, overlapped) == [route |-> route, pc |-> pc, tx |-> tx, overlapped |-> overlapped]

InFlight(runs) == {i \in 1..Len(runs) : runs[i].pc # "done"}

TaInit ==
    /\ taRoute \in Routes
    /\ taRuns = <<Run(taRoute, "awaitTransactions", NoTx, FALSE)>>
    /\ taAllTransactions = <<>>
    /\ taTransaction = NoTx
    /\ taVersion = ""
    /\ taHashes = Null
    /\ taSecurity = Null
    /\ taCustomDecoded = Null
    /\ taApiDecodedVerification = Null
    /\ taMultiSendVerification = Null
    /\ taMultiSendTxs = Null
    /\ taLoading = TRUE
    /\ taLoadingMessage = "Loading transaction..."
    /\ taError = <<>>

\* the route parameters change: the effect runs again and a new
\* fetchAndAnalyze starts, up to its await of fetchTransactionsByNonce
TaNavigate ==
    /\ Len(taRuns) < MaxRuns
    /\ \E route \in Routes \ {taRoute} :
           /\ taRoute' = route
           /\ taRuns' = Append(taRuns, Run(route, "awaitTransactions", NoTx, InFlight(taRuns) # {}))
    /\ taLoading' = TRUE
    /\ taError' = <<>>
    /\ taLoadingMessage' = "Loading transaction..."
    /\ UNCHANGED <<taAllTransactions, taTransaction, taVersion, taHashes, taSecurity,
                   taCustomDecoded, taApiDecodedVerification, taMultiSendVerification,
                   taMultiSendTxs, coreVars, appVars, rbVars>>

\* fetchTransactionsByNonce resolves: up to the await of fetchSafeVersion
TaTransactionsResolved ==
    \E i \in 1..Len(taRuns) :
        /\ taRuns[i].pc = "awaitTransactions"
        /\ taAllTransactions' = ResultsFor(taRuns[i].route.nonce)
        /\ taTransaction' = selectTx(ResultsFor(taRuns[i].route.nonce), taRuns[i].route.safeTxHashParam)
        /\ taLoadingMessage' = "Loading Safe version..."
        /\ taRuns' = [taRuns EXCEPT ![i].pc = "awaitVersion", ![i].tx = taTransaction']
        /\ UNCHANGED <<taRoute, taVersion, taHashes, taSecurity, taCustomDecoded,
                       taApiDecodedVerification, taMultiSendVerification, taMultiSendTxs,
                       taLoading, taError, coreVars, appVars, rbVars>>

\* one of the two requests rejects: catch and finally
TaRequestRejected ==
    \E i \in 1..Len(taRuns), err \in TaErrors :
        /\ taRuns[i].pc \in {"awaitTransactions", "awaitVersion"}
        /\ taError' = errorMessage(err)
        /\ taLoading' = FALSE
        /\ taRuns' = [taRuns EXCEPT ![i].pc = "done"]
        /\ UNCHANGED <<taRoute, taAllTransactions, taTransaction, taVersion, taHashes, taSecurity,
                       taCustomDecoded, taApiDecodedVerification, taMultiSendVerification,
                       taMultiSendTxs, taLoadingMessage, coreVars, appVars, rbVars>>

\* fetchSafeVersion resolves: the rest of the try block, catch and finally
TaVersionResolved ==
    \E i \in 1..Len(taRuns), safeVersion \in TaVersions :
        /\ taRuns[i].pc = "awaitVersion"
        /\ taVersion' = safeVersion
        /\ taLoadingMessage' = "Calculating transaction hash..."
        /\ taLoading' = FALSE
        /\ taRuns' = [taRuns EXCEPT ![i].pc = "done"]
        /\ IF safeVersion = "0.0.1"
           THEN /\ taError' = <<"Safe", "version", "0.0.1", "is", "not", "supported">>
                /\ UNCHANGED <<taHashes, taSecurity, taCustomDecoded, taApiDecodedVerification,
                               taMultiSendVerification, taMultiSendTxs>>
           ELSE LET tx == taRuns[i].tx
                IN /\ taHashes' = Computed(tx)
                   /\ taSecurity' = Computed(tx)
                   /\ taMultiSendVerification' =
                          IF tx.hasData /\ tx.multiSend /\ tx.dataDecoded
                          THEN Computed(tx) ELSE taMultiSendVerification
                   /\ taMultiSendTxs' =
                          IF tx.hasData /\ tx.multiSend /\ tx.nested
                          THEN Computed(tx) ELSE taMultiSendTxs
                   /\ taCustomDecoded' =
                          IF tx.hasData /\ ~tx.multiSend /\ tx.custom
                          THEN Computed(tx) ELSE taCustomDecoded
                   /\ taApiDecodedVerification' =
                          IF tx.hasData /\ ~tx.multiSend /\ ~tx.custom /\ tx.dataDecoded
                          THEN Computed(tx) ELSE taApiDecodedVerification
                   /\ UNCHANGED taError
        /\ UNCHANGED <<taRoute, taAllTransactions, taTransaction, coreVars, appVars, rbVars>>

TaNext ==
    \/ TaNavigate
    \/ TaTransactionsResolved
    \/ TaRequestRejected
    \/ TaVersionResolved

TaIdle ==
    /\ taRoute = Route(0, "null")
    /\ taRuns = <<>>
    /\ taAllTransactions = <<>>
    /\ taTransaction = NoTx
    /\ taVersion = ""
    /\ taHashes = Null
    /\ taSecurity = Null
    /\ taCustomDecoded = Null
    /\ taApiDecodedVerification = Null
    /\ taMultiSendVerification = Null
    /\ taMultiSendTxs = Null
    /\ taLoading = FALSE
    /\ taLoadingMessage = ""
    /\ taError = <<>>

(***************************************************************************)
(* Specifications, one per component                                       *)
(***************************************************************************)
AppIdle == CmdIdle /\ RegIdle /\ UwIdle

UiIdle == RbIdle /\ TaIdle

InitHash == HashInit /\ MsIdle /\ VerIdle /\ SecIdle /\ AppIdle /\ UiIdle

SpecHash == InitHash /\ [][HashNext]_vars

InitMultiSend == MsInit /\ HashIdle /\ VerIdle /\ SecIdle /\ AppIdle /\ UiIdle

SpecMultiSend == InitMultiSend /\ [][MsNext]_vars

InitVerify == VerInit /\ HashIdle /\ MsIdle /\ SecIdle /\ AppIdle /\ UiIdle

SpecVerify == InitVerify /\ [][VerNext]_vars

InitSecurity == SecInit /\ HashIdle /\ MsIdle /\ VerIdle /\ AppIdle /\ UiIdle

SpecSecurity == InitSecurity /\ [][SecNext]_vars

InitCommand == CmdInit /\ MsIdle /\ VerIdle /\ SecIdle /\ RegIdle /\ UwIdle /\ UiIdle

SpecCommand == InitCommand /\ [][CmdNext]_vars

InitRegistry == RegInit /\ HashIdle /\ MsIdle /\ VerIdle /\ SecIdle /\ CmdIdle /\ UwIdle /\ UiIdle

SpecRegistry == InitRegistry /\ [][RegNext]_vars

InitUnwind == UwInit /\ HashIdle /\ MsIdle /\ VerIdle /\ SecIdle /\ CmdIdle /\ RegIdle /\ UiIdle

\* the code runs to completion: a step that can be taken is taken
SpecUnwind == InitUnwind /\ [][UwNext]_vars

InitRetry == RbInit /\ HashIdle /\ MsIdle /\ VerIdle /\ SecIdle /\ AppIdle /\ TaIdle

\* the event loop runs every continuation that is ready: fn settles and
\* timers fire
SpecRetry == InitRetry /\ [][RbNext]_vars /\ WF_vars(RbNext)

InitView == TaInit /\ HashIdle /\ MsIdle /\ VerIdle /\ SecIdle /\ AppIdle /\ RbIdle

SpecView == InitView /\ [][TaNext]_vars

(***************************************************************************)
(* Properties of the hash calculator                                       *)
(***************************************************************************)
\* numeric order of dotted triples, independent of the string comparison
TripleLess(a, b) ==
    \/ a[1] < b[1]
    \/ a[1] = b[1] /\ a[2] < b[2]
    \/ a[1] = b[1] /\ a[2] = b[2] /\ a[3] < b[3]

TripleLeq(a, b) == a = b \/ TripleLess(a, b)

\* C1: the triple returned by calculateSafeTxHash satisfies
\* safeTxHash = keccak256(0x1901 ++ domainHash ++ messageHash), with
\* domainHash = calculateDomainHash(chainId, safeAddress, version) and
\* messageHash = calculateMessageHash(tx, version) for the same inputs.
C1_SafeTxHashComposition ==
    (hashOp = "calculateSafeTxHash" /\ ~hashResult.threw) =>
        /\ hashResult.domainHash = calculateDomainHash(chainId, safeAddress, version)
        /\ hashResult.messageHash = calculateMessageHash(txData, version)
        /\ hashResult.safeTxHash =
               <<"h", <<Byte(25), Byte(1), hashResult.domainHash, hashResult.messageHash>>>>

C1_Witness ==
    /\ hashOp = "calculateSafeTxHash"
    /\ ~hashResult.threw
    /\ hashResult.safeTxHash # NoHash
    /\ txData.data # <<>>

\* C2: calculateSafeTxHash throws, and returns no hash triple, exactly when
\* the version is empty (error 'No Safe multisig contract found') or when
\* the version without its '+suffix' is below 0.1.0 (error 'version
\* "<clean>" is not supported'); for every other version it returns a triple.
C2_ValidateBeforeHash ==
    hashOp = "calculateSafeTxHash" =>
        IF version = <<>>
        THEN hashResult = Threw([kind |-> ErrNoContract, clean |-> <<>>])
        ELSE IF TripleLess(vBase.num, <<0, 1, 0>>)
        THEN hashResult = Threw([kind |-> ErrNotSupported, clean |-> vBase.str])
        ELSE /\ ~hashResult.threw
             /\ hashResult.domainHash # NoHash
             /\ hashResult.messageHash # NoHash
             /\ hashResult.safeTxHash # NoHash

C2_Witness ==
    /\ hashOp = "calculateSafeTxHash"
    /\ hashResult.threw
    /\ hashResult.error.kind = ErrNotSupported
    /\ version # <<>>
    /\ vTag # <<>>

C4_MessageHashEncoding ==
    hashOp = "calculateMessageHash" =>
        hashResult.messageHash =
            <<"h", <<IF TripleLess(vBase.num, <<1, 0, 0>>)
                     THEN SAFE_TX_TYPEHASH_OLD ELSE SAFE_TX_TYPEHASH,
                     <<"w", txData.to>>,
                     <<"w", txData.value>>,
                     <<"h", txData.data>>,
                     <<"w", txData.operation>>,
                     <<"w", txData.safeTxGas>>,
                     <<"w", txData.baseGas>>,
                     <<"w", txData.gasPrice>>,
                     <<"w", txData.gasToken>>,
                     <<"w", txData.refundReceiver>>,
                     <<"w", txData.nonce>>>>>>

C4_Witness ==
    /\ hashOp = "calculateMessageHash"
    /\ vBase.num = <<0, 3, 1>>
    /\ txData.baseGas # txData.safeTxGas
    /\ txData.data # <<>>
    /\ hashResult.messageHash[2][1] = SAFE_TX_TYPEHASH_OLD

\* C5: for the same (chainId, safeAddress) the domain hash of any version
\* <= 1.2.0 differs from that of any version >= 1.3.0, and for identical
\* transaction fields the message hash is the same for any two versions
\* >= 1.0.0.
C5_VersionMonotonicity ==
    /\ (hashOp = "calculateDomainHash" /\ TripleLeq(vBase.num, <<1, 2, 0>>)) =>
           \A b \in Bases, t \in Tags :
               TripleLeq(<<1, 3, 0>>, b.num) =>
                   calculateDomainHash(chainId, safeAddress, b.str \o t)
                       # hashResult.domainHash
    /\ (hashOp = "calculateMessageHash" /\ TripleLeq(<<1, 0, 0>>, vBase.num)) =>
           \A b \in Bases, t \in Tags :
               TripleLeq(<<1, 0, 0>>, b.num) =>
                   calculateMessageHash(txData, b.str \o t) = hashResult.messageHash

C5_Witness ==
    /\ hashOp = "calculateDomainHash"
    /\ vBase.num = <<1, 2, 0>>
    /\ hashResult.domainHash # NoHash

\* C6: for every supported version v and every tag, calculateSafeTxHash on
\* v + '+' + tag returns the same domainHash, messageHash and safeTxHash as
\* on v.
C6_SuffixInvariance ==
    (hashOp = "calculateSafeTxHash" /\ TripleLeq(<<0, 1, 0>>, vBase.num)) =>
        hashResult = calculateSafeTxHash(chainId, safeAddress, txData, vBase.str)

C6_Witness ==
    /\ hashOp = "calculateSafeTxHash"
    /\ vTag = <<"+", "L", "2">>
    /\ vBase.num = <<1, 2, 1>>
    /\ ~hashResult.threw

\* C7: for all valid version strings v (a dotted triple optionally suffixed
\* '+<tag>'), compareVersions(v, getVersion(v)) = 0.
C7_CompareWithClean ==
    (hashOp = "compareVersions" /\ vBase.valid) => cmpResult = 0

(***************************************************************************)
(* Properties of the MultiSend decoder                                     *)
(***************************************************************************)
\* C8: packing a finite sequence of sub-calls as operation ++ to ++ value ++
\* length ++ payload, wrapping the blob in a multiSend(bytes) call and
\* calling decodeMultiSend returns a list of the same length, in the same
\* order, with the same operation, to, value and data bytes for each
\* element; the empty sequence decodes to the empty list.
C8_PackedRoundTrip ==
    (msOp = "decodeMultiSend" /\ msKind = "valid") =>
        /\ ~msResult.isNull
        /\ ~msResult.threw
        /\ Len(msResult.txs) = Len(msCalls)
        /\ \A i \in 1..Len(msCalls) :
               /\ msResult.txs[i].operation = msCalls[i].operation
               /\ msResult.txs[i].to = ToLower(msCalls[i].to)
               /\ msResult.txs[i].value = msCalls[i].value
               /\ msResult.txs[i].data = ToLower(msCalls[i].data)

C8_Witness ==
    /\ msOp = "decodeMultiSend"
    /\ msKind = "valid"
    /\ Len(msCalls) = 2
    /\ msCalls[1].data = <<>>
    /\ msCalls[2].data # <<>>
    /\ msCalls[2].operation = 1
    /\ Len(msResult.txs) = 2

\* C9: decodeMultiSend never throws; for any input that is not a call of
\* multiSend(bytes) (empty data, data shorter than a selector, another
\* selector, undecodable ABI arguments) it returns null, and isMultiSend
\* returns false for the same input.
C9_NotMultiSendIsNull ==
    /\ msOp = "decodeMultiSend" => ~msResult.threw
    /\ (msOp = "decodeMultiSend" /\ msKind \in NotMultiSendKinds) =>
           msResult.isNull /\ msResult.txs = <<>>
    /\ (msOp = "isMultiSend" /\ msKind \in NotMultiSendKinds) => msIs = FALSE

C9_Witness ==
    /\ msOp = "isMultiSend"
    /\ msKind = "badLength"
    /\ Len(msCalls) = 1
    /\ msIs = FALSE

(***************************************************************************)
(* Properties of the decoded-data verifier                                 *)
(***************************************************************************)
\* C10: verifyDecodedData is total: for every rawData (null and '0x'
\* included) and every decoded claim (null, unknown parameter types,
\* unparsable values, a missing parameters list) it returns a result and no
\* exception escapes; every internal failure is reported as verified=false
\* with an error string.
C10_VerifyTotal ==
    verOp = "verifyDecodedData" =>
        /\ ~verResult.threw
        /\ verResult.verified \in BOOLEAN
        /\ ~verResult.verified => verResult.error # Undefined
        /\ verDecoded.isNull =>
               ~verResult.verified /\ verResult.error = ErrNoDecoded
        /\ (~verDecoded.isNull /\ (verRaw.isNull \/ verRaw.hex = <<>>)) =>
               ~verResult.verified /\ verResult.error = ErrNoRaw
        /\ (/\ ~verDecoded.isNull
            /\ ~verRaw.isNull
            /\ verRaw.hex # <<>>
            /\ \/ ~verDecoded.hasParameters
               \/ \E i \in 1..Len(verDecoded.parameters) : verDecoded.parameters[i].bad) =>
               ~verResult.verified /\ verResult.error = ErrFailed

C10_Witness ==
    /\ verOp = "verifyDecodedData"
    /\ ~verDecoded.isNull
    /\ ~verDecoded.hasParameters
    /\ verRawKind = "exact"
    /\ verResult.error = ErrFailed

\* the types a claim declares
ClaimTypes(decoded) == [i \in 1..Len(decoded.parameters) |-> decoded.parameters[i].type]

\* what a value of a Solidity type stands for, whether written by the
\* annotator (decimal or hex string, 'true') or already typed
RECURSIVE Meaning(_, _)
Meaning(type, v) ==
    CASE type = "uint256" ->
             (CASE v[1] = "dec" -> <<"num", NatToHex(v[2])>>
                [] v[1] = "big" -> <<"num", v[2]>>
                [] v[1] = "hex" /\ v[2] # <<>> -> <<"num", BigIntOfHex(v[2])>>
                [] OTHER -> <<"none">>)
      [] type = "address" ->
             IF v[1] = "hex" /\ Len(v[2]) = 40 THEN <<"address", ToLower(v[2])>> ELSE <<"none">>
      [] type = "bool" ->
             (CASE v[1] = "bool" -> <<"bool", v[2]>>
                [] v[1] = "word" /\ v[2] \in {"true", "TRUE", "True"} -> <<"bool", TRUE>>
                [] v[1] = "word" /\ v[2] \in {"false", "FALSE", "False"} -> <<"bool", FALSE>>
                [] OTHER -> <<"none">>)
      [] type = "bytes" ->
             IF v[1] = "hex" THEN <<"bytes", ToLower(v[2])>> ELSE <<"none">>
      [] type \in ArraySuffixed ->
             IF v[1] = "arr"
             THEN <<"arr", [i \in 1..Len(v[2]) |-> Meaning(ElementType(type), v[2][i])]>>
             ELSE <<"none">>
      [] OTHER -> <<"none">>

\* the raw data is the ABI call encoding of the claim: it is the encoding
\* of the reference call, whole, and the claim names that call
RawEncodesClaim ==
    /\ \/ verRawKind \in {"exact", "upper"}
       \/ verRawKind = "selectorOnly" /\ verRef.types = <<>>
    /\ ~verDecoded.isNull
    /\ verDecoded.hasParameters
    /\ verDecoded.method = verRef.method
    /\ ClaimTypes(verDecoded) = verRef.types
    /\ \A i \in 1..Len(verRef.types) :
           /\ Meaning(verRef.types[i], verRef.args[i]) # <<"none">>
           /\ Meaning(verRef.types[i], verDecoded.parameters[i].value)
                  = Meaning(verRef.types[i], verRef.args[i])

\* C11: verifyDecodedData never reports a false positive: verified=true is
\* returned only when rawData equals the ABI call encoding of the claim
\* (the selector of the claimed method and types followed by the encoding
\* of the claimed values); in every other case the result has
\* verified=false and a non-empty error.
C11_NoFalsePositive ==
    verOp = "verifyDecodedData" =>
        /\ verResult.verified => RawEncodesClaim
        /\ ~verResult.verified => verResult.error \notin {Undefined, ""}

\* C12: zero-argument rule: for a claim with an empty parameter list and
\* non-empty rawData, verified is true exactly when rawData is a 4-byte
\* selector and nothing more, and any byte after the selector gives
\* verified=false with the extra-bytes error.
C12_ZeroArgumentRule ==
    (/\ verOp = "verifyDecodedData"
     /\ ~verDecoded.isNull
     /\ verDecoded.hasParameters
     /\ Len(verDecoded.parameters) = 0
     /\ ~verRaw.isNull
     /\ verRaw.hex # <<>>) =>
        /\ verResult.verified <=> Len(verRaw.hex) = 8
        /\ Len(verRaw.hex) > 8 =>
               ~verResult.verified /\ verResult.error = ErrExtraBytes

\* C13: verifyDecodedData is idempotent and insensitive to the hex case of
\* rawData: the verified outcome is the same for the lower-case, upper-case
\* and mixed-case spellings of the same bytes, and a second call with the
\* same inputs returns the same result.
C13_CaseInsensitiveIdempotent ==
    verOp = "spellings" =>
        /\ verSpellings.again = verResult
        /\ verSpellings.lower.verified = verResult.verified
        /\ verSpellings.upper.verified = verResult.verified
        /\ verSpellings.mixed.verified = verResult.verified

C13_Witness ==
    /\ verOp = "spellings"
    /\ verRawKind = "upper"
    /\ Len(verDecoded.parameters) = 2
    /\ verRaw.hex # ToLower(verRaw.hex)
    /\ verResult.verified
    /\ verSpellings.mixed.verified

(***************************************************************************)
(* Properties of the security checks                                       *)
(***************************************************************************)
\* the allow-list for delegate calls, as lower-case addresses
TrustedLower ==
    {ToLower(TRUSTED_DELEGATE_CALL_ADDRESSES[i]) :
         i \in 1..Len(TRUSTED_DELEGATE_CALL_ADDRESSES)}

\* C14: checkDelegateCall(operation, to): isDelegateCall holds exactly when
\* operation = 1; a delegate call to a target on the allow-list, compared
\* without regard to case, yields isTrusted=true with no warning and no
\* warningLevel; a delegate call to any other target yields
\* isTrusted=false, warningLevel=critical and a warning naming the target;
\* any other operation yields isDelegateCall=false, isTrusted=false and no
\* warning.
C14_DelegateCallCheck ==
    secOp = "checkDelegateCall" =>
        /\ secResult.isDelegateCall <=> secTx.operation = 1
        /\ (secTx.operation = 1 /\ ToLower(secTx.to) \in TrustedLower) =>
               /\ secResult.isTrusted
               /\ secResult.warning = <<>>
               /\ secResult.warningLevel = Undefined
        /\ (secTx.operation = 1 /\ ToLower(secTx.to) \notin TrustedLower) =>
               /\ ~secResult.isTrusted
               /\ secResult.warningLevel = "critical"
               /\ Len(secResult.warning) = 2
               /\ secResult.warning[2] = secTx.to
        /\ secTx.operation # 1 =>
               /\ ~secResult.isDelegateCall
               /\ ~secResult.isTrusted
               /\ secResult.warning = <<>>
               /\ secResult.warningLevel = Undefined

C14_Witness ==
    /\ secOp = "checkDelegateCall"
    /\ secTx.operation = 1
    /\ secTx.to # ToLower(secTx.to)
    /\ secTx.to \notin {TRUSTED_DELEGATE_CALL_ADDRESSES[i] :
                            i \in 1..Len(TRUSTED_DELEGATE_CALL_ADDRESSES)}
    /\ secResult.isTrusted

\* the gas price as a number, whether given as a bigint or as a string
GasPriceValue(gasPrice) == IF gasPrice[1] = "dec" THEN gasPrice[2] ELSE HexToNat(gasPrice[2])

OwnerFunctionOf(kind) ==
    CASE kind = "addOwnerWithThreshold" -> "addOwnerWithThreshold"
      [] kind = "removeOwner" -> "removeOwner"
      [] kind = "swapOwner" -> "swapOwner"
      [] kind \in {"changeThreshold", "changeThresholdSelectorOnly"} -> "changeThreshold"
      [] OTHER -> ""

\* the owner/threshold calls a description holds, in batch order, each with
\* the number of batches around it
RECURSIVE OwnerCallsIn(_, _)
RECURSIVE OwnerCallsFrom(_, _, _)
OwnerCallsFrom(items, i, depth) ==
    IF i > Len(items) THEN <<>>
    ELSE OwnerCallsIn(items[i].tree, depth) \o OwnerCallsFrom(items, i + 1, depth)

OwnerCallsIn(tree, depth) ==
    IF tree.kind = "batch" THEN OwnerCallsFrom(tree.items, 1, depth + 1)
    ELSE IF OwnerFunctionOf(tree.kind) # ""
    THEN <<[functionName |-> OwnerFunctionOf(tree.kind), isNested |-> depth > 0,
            depth |-> depth]>>
    ELSE <<>>

\* C16: checkOwnerModifications(data): if the selector of data, or of any
\* sub-call payload reached by unwinding multiSend batches, is one of the
\* four owner/threshold selectors, then modifiesOwners=true,
\* warningLevel=critical and modifications holds one entry per matching
\* call, in batch order, with depth the number of enclosing batches and
\* isNested = (depth > 0); if nothing matches, modifiesOwners=false,
\* modifications is empty, warningLevel=info and there is no warning.
C16_OwnerModifications ==
    secOp = "checkOwnerModifications" =>
        LET expected == OwnerCallsIn(secTree, 0)
        IN IF expected # <<>>
           THEN /\ secResult.modifiesOwners
                /\ secResult.warningLevel = "critical"
                /\ secResult.modifications = expected
           ELSE /\ ~secResult.modifiesOwners
                /\ secResult.modifications = <<>>
                /\ secResult.warningLevel = "info"
                /\ secResult.warning = <<>>

\* the module and guard calls a description holds, in batch order
ModuleGuardTypeOf(kind) ==
    IF kind \in ModuleKinds THEN "module" ELSE IF kind \in GuardKinds THEN "guard" ELSE ""

RECURSIVE ModuleGuardCallsIn(_)
RECURSIVE ModuleGuardCallsFrom(_, _)
ModuleGuardCallsFrom(items, i) ==
    IF i > Len(items) THEN <<>>
    ELSE ModuleGuardCallsIn(items[i].tree) \o ModuleGuardCallsFrom(items, i + 1)

ModuleGuardCallsIn(tree) ==
    IF tree.kind = "batch" THEN ModuleGuardCallsFrom(tree.items, 1)
    ELSE IF ModuleGuardTypeOf(tree.kind) # "" THEN <<ModuleGuardTypeOf(tree.kind)>>
    ELSE <<>>

\* C17: checkModuleGuardOperations(data): whenever at least one
\* enableModule, disableModule or setGuard call is found, directly or
\* nested, warningLevel=high and the warnings list is non-empty, even when
\* every detected target is on the trust allow-list; when nothing is found,
\* warningLevel=info, hasModuleOperation=hasGuardOperation=false and there
\* are no warnings; hasModuleOperation / hasGuardOperation are true exactly
\* when a detection of that type exists.  For call data written in lower
\* case the detections are the module and guard calls the data holds.
C17_ModuleGuardSeverity ==
    secOp = "checkModuleGuardOperations" =>
        LET detections == secResult.detections
            Found(type) == \E i \in 1..Len(detections) : detections[i].type = type
        IN /\ detections # <<>> =>
                  /\ secResult.warningLevel = "high"
                  /\ secResult.warnings # <<>>
           /\ detections = <<>> =>
                  /\ secResult.warningLevel = "info"
                  /\ ~secResult.hasModuleOperation
                  /\ ~secResult.hasGuardOperation
                  /\ secResult.warnings = <<>>
           /\ secResult.hasModuleOperation <=> Found("module")
           /\ secResult.hasGuardOperation <=> Found("guard")
           /\ secSpelling = "lower" =>
                  [i \in 1..Len(detections) |-> detections[i].type]
                      = ModuleGuardCallsIn(secTree)

C17_Witness ==
    /\ secOp = "checkModuleGuardOperations"
    /\ secTree.kind = "batch"
    /\ secResult.detections # <<>>
    /\ \A i \in 1..Len(secResult.detections) : secResult.detections[i].isTrusted
    /\ secResult.warningLevel = "high"
    /\ secResult.warnings # <<>>

\* none < low < medium < high < critical; an absent level and 'info' count
\* as none
SeverityRank(level) ==
    CASE level = "critical" -> 4
      [] level = "high" -> 3
      [] level = "medium" -> 2
      [] level = "low" -> 1
      [] OTHER -> 0

\* C18: analyzeSecurity returns overallRisk equal to the maximum severity
\* among delegateCall.warningLevel, gasToken.riskLevel,
\* ownerModification.warningLevel and moduleGuard.warningLevel under the
\* order none < low < medium < high < critical, where an absent level and
\* 'info' count as none.
C18_OverallRiskIsMaximum ==
    secOp = "analyzeSecurity" =>
        LET ranks == {SeverityRank(secResult.delegateCall.warningLevel),
                      SeverityRank(secResult.gasToken.riskLevel),
                      SeverityRank(secResult.ownerModification.warningLevel),
                      SeverityRank(secResult.moduleGuard.warningLevel)}
        IN /\ ~secResult.threw
           /\ secResult.overallRisk \in {"none", "low", "medium", "high", "critical"}
           /\ SeverityRank(secResult.overallRisk) \in ranks
           /\ \A r \in ranks : r <= SeverityRank(secResult.overallRisk)
           /\ secResult.delegateCall = checkDelegateCall(secTx.operation, secTx.to)
           /\ secResult.gasToken.riskLevel
                  = checkGasTokenAttack(secTx.gasPrice, secTx.gasToken,
                                        secTx.refundReceiver).riskLevel

C18_Witness ==
    /\ secOp = "analyzeSecurity"
    /\ secResult.overallRisk = "high"
    /\ secResult.moduleGuard.warningLevel = "high"
    /\ secResult.gasToken.riskLevel \in {"none", "low", "medium"}
    /\ secResult.delegateCall.warningLevel = Undefined
    /\ secResult.ownerModification.warningLevel = "info"

\* C19: analyzeSecurity returns requiresCarefulReview = true exactly when
\* overallRisk is high or critical, or the delegate-call check produced a
\* warning, or the gas-token warnings list is non-empty, or the owner check
\* matched, or the module/guard check matched; so it is true at low and
\* medium gas-token risk and false only when no sub-check reported
\* anything.
C19_CarefulReview ==
    secOp = "analyzeSecurity" =>
        /\ secResult.requiresCarefulReview <=>
               \/ secResult.overallRisk \in {"high", "critical"}
               \/ secResult.delegateCall.warning # <<>>
               \/ secResult.gasToken.warnings # <<>>
               \/ secResult.ownerModification.modifiesOwners
               \/ secResult.moduleGuard.detections # <<>>
        /\ secResult.gasToken.riskLevel \in {"low", "medium"} =>
               secResult.requiresCarefulReview
        /\ ~secResult.requiresCarefulReview =>
               /\ secResult.delegateCall.warning = <<>>
               /\ secResult.gasToken.warnings = <<>>
               /\ secResult.ownerModification.modifications = <<>>
               /\ secResult.moduleGuard.detections = <<>>

C19_Witness ==
    /\ secOp = "analyzeSecurity"
    /\ secResult.overallRisk = "low"
    /\ secResult.requiresCarefulReview

\* a sub-call of the description, at any depth, is a delegate call to a
\* target outside the allow-list
RECURSIVE HasUntrustedDelegateSubCall(_)
HasUntrustedDelegateSubCall(tree) ==
    /\ tree.kind = "batch"
    /\ \E i \in 1..Len(tree.items) :
           \/ tree.items[i].operation = 1 /\ ToLower(tree.items[i].to) \notin TrustedLower
           \/ HasUntrustedDelegateSubCall(tree.items[i].tree)

\* C20: when the transaction data is a batch, the risk checks are re-run
\* on every decoded sub-call: a sub-call whose operation is DelegateCall
\* and whose target is outside the allow-list makes analyzeSecurity report
\* overallRisk = critical, even when the outer transaction is itself a
\* trusted delegate call to a MultiSend contract.
C20_SubCallDelegateCall ==
    (/\ secOp = "analyzeSecurity"
     /\ secSpelling = "lower"
     /\ HasUntrustedDelegateSubCall(secTree)) =>
        secResult.overallRisk = "critical"

\* C21: batch unwinding in the owner/threshold and module/guard checks is
\* capped at a fixed depth (16): call data nested deeper than the cap is not
\* recursed into further and fails closed, that is, each check reports its
\* highest risk and never 'no detection'
C21_DepthCapFailsClosed ==
    (uwPc = "done" /\ uwWraps > 16) =>
        /\ ownerResult(uwFound).warningLevel = "critical"
        /\ moduleGuardResult(uwDetections).warningLevel = "high"

Said(line) == \E i \in 1..Len(cmdOutput) : cmdOutput[i] = line

\* the version the command works with makes the calculation throw: it is
\* empty, or it is the given version and that is below 0.1.0
CmdVersionRejected ==
    \/ cmdVersion = <<>>
    \/ version # <<>> /\ TripleLess(vBase.num, <<0, 1, 0>>)

\* C22: the verify command prints the positive verdict ('HASH VERIFIED ...
\* safe to sign') only after calculateSafeTxHash returned a triple whose
\* safeTxHash equals the hash that came with the transaction; when the
\* calculation throws (empty or unsupported version) no positive verdict is
\* printed
C22_VerdictNeedsMatchingHash ==
    /\ (Said(LINE_VERIFIED) \/ Said(LINE_SAFE_TO_SIGN)) =>
           /\ cmdPc = "done"
           /\ cmdApiKind \in {"same", "sameUpper"}
           /\ ~CmdVersionRejected
           /\ ~cmdHash.threw
           /\ cmdHash.safeTxHash = cmdApiHash.value
    /\ (cmdPc = "done" /\ CmdVersionRejected) =>
           cmdOutput = <<LINE_FAILED, LINE_CAUTION>>

C22_Witness ==
    /\ cmdPc = "done"
    /\ Said(LINE_VERIFIED)
    /\ cmdApiKind = "sameUpper"
    /\ vTag # <<>>

\* the decoders given to register for an address (any spelling) and,
\* for a network, under exactly that network; with no network, under none
RegisteredFor(address, network) ==
    {i \in 1..Len(regLog) :
        /\ ToLower(regLog[i].contractAddress) = ToLower(address)
        /\ IF Truthy(network) THEN regLog[i].network = network
           ELSE ~Truthy(regLog[i].network)}

Latest(indices) == regLog[CHOOSE i \in indices : \A j \in indices : j <= i]

\* C23: getDecoder(address, network) returns the decoder registered last for
\* that address (compared case-insensitively) under that network if there is
\* one, otherwise the network-agnostic decoder registered last for the
\* address, otherwise undefined
C23_NetworkSpecificPreferred ==
    regOp = "getDecoder" =>
        LET specific == IF Truthy(regArgs.network)
                        THEN RegisteredFor(regArgs.address, regArgs.network) ELSE {}
            generic == RegisteredFor(regArgs.address, Undefined)
        IN /\ ~regResult.threw
           /\ regResult.decoder =
                  IF specific # {} THEN Latest(specific)
                  ELSE IF generic # {} THEN Latest(generic)
                  ELSE NoDecoder

C23_Witness ==
    /\ regOp = "getDecoder"
    /\ Len(regLog) = 2
    /\ regLog[1].network = Undefined
    /\ regLog[2].network = "ethereum"
    /\ regLog[1].contractAddress = ToA
    /\ regLog[2].contractAddress = ToLower(ToA)
    /\ regArgs = [address |-> ToA, network |-> "ethereum"]
    /\ regResult.decoder = regLog[2]

\* C24: decode never lets a failure of a registered decoder out: whatever
\* the decoder does, decode returns a decoded result or undefined, and the
\* registrations stay as they were
C24_DecodeNeverThrows ==
    regOp = "decode" =>
        /\ ~regResult.threw
        /\ regDecoders = [k \in {makeKey(regLog[i].contractAddress, regLog[i].network) :
                                    i \in 1..Len(regLog)} |->
                              Latest({i \in 1..Len(regLog) :
                                         makeKey(regLog[i].contractAddress, regLog[i].network) = k})]

\* byte counts at which the packed blob of the calls ends with a complete record
RECURSIVE RecordEnds(_)
RecordEnds(calls) ==
    IF calls = <<>> THEN {0}
    ELSE {0} \cup {85 + (Len(Head(calls).data) \div 2) + e : e \in RecordEnds(Tail(calls))}

\* C25: when the packed blob inside a multiSend call ends before a record
\* is complete (fewer than 85 header bytes remain, or the declared data
\* length exceeds the bytes that remain), decodeMultiSend returns null and
\* never a list holding a partially read record
C25_TruncatedBlobIsNull ==
    (/\ msOp = "decodeMultiSend"
     /\ msKind = "cutBlob"
     /\ msCut \notin RecordEnds(msCalls)) =>
        msResult.isNull

\* each pass of the loop moves the read offset forward by a whole record
\* header at least (or leaves it NaN, which fails the next loop test), and
\* every sub-call handed to the recursion is shorter than the batch it
\* came from and one level deeper
UnwindStep ==
    /\ (uwPc = "loop" /\ uwPc' = "loop") =>
           (uwOffset' = NaN \/ uwOffset' >= uwOffset + 170)
    /\ (uwPc = "loop" /\ uwPc' = "call") =>
           \A i \in 1..(Len(uwStack') - Len(uwStack)) :
               /\ Len(uwStack'[i].data) < Len(uwFrame.data)
               /\ uwStack'[i].depth = uwFrame.depth + 1

\* a call at depth d sits under d batches, each of which spends a selector
\* and two words on it
DepthWithinInput ==
    \A i \in 1..Len(uwStack) :
        Len(uwStack[i].data) + 136 * uwStack[i].depth <= Len(uwData)

\* the work a list of pending payloads can still cause: a call and a loop
\* exit for each, and a pass of the loop for each of its characters
RECURSIVE PendingWork(_)
PendingWork(payloads) ==
    IF payloads = <<>> THEN 0
    ELSE 3 * Len(Head(payloads).data) + 2 + PendingWork(Tail(payloads))

\* characters of the blob the loop has not read yet
Unread ==
    IF uwOffset = NaN \/ uwOffset >= Len(uwPacked) THEN 0 ELSE Len(uwPacked) - uwOffset

\* an upper bound of the steps left before the outermost call returns
WorkLeft ==
    IF uwPc = "done" THEN 0
    ELSE IF uwPc = "input" THEN 3 * Len(uwData) + 4
    ELSE IF uwPc = "call" THEN 1 + PendingWork(uwStack)
    ELSE 2 + 3 * Unread + PendingWork(uwTxs) + PendingWork(uwStack)

\* every position of the program has a step whose guard holds: UwStart at
\* "input", UwCall or UwReturn at "call", UwLoopRead or UwLoopEnd at "loop"
CanStep ==
    /\ uwPc \in {"input", "call", "loop", "done"}
    /\ uwPc = "loop" => uwOffset \in Nat \cup {NaN}

\* C26: batch unwinding terminates on every finite call data: the read
\* offset of decodeMultiSend strictly increases with each record until the
\* blob is exhausted, each recursive call of checkTransactionData gets a
\* payload strictly shorter than the batch holding it, and so the depth is
\* bounded by the size of the input. Termination is the strict decrease of
\* WorkLeft, a natural number, with every step of the program, together
\* with the program never being stuck before it is done
C26_UnwindingTerminates ==
    /\ [][/\ UnwindStep
          /\ (uwWraps' = uwWraps /\ vars' # vars) => WorkLeft' < WorkLeft]_vars
    /\ [](DepthWithinInput /\ CanStep /\ WorkLeft >= 0)

C26_Witness ==
    /\ uwPc = "done"
    /\ \E i \in 1..Len(uwFound) : uwFound[i].depth = 2
    /\ Len(uwFound) >= 2

\* C27: in verifyDecodedData a parameter declared as an array of integers
\* (uint256[], int256[]) has its value taken as an array and not converted
\* as one big integer, so a claim that the raw data encodes and that holds
\* such a parameter is verified
C27_IntegerArrayVerified ==
    (/\ verOp = "verifyDecodedData"
     /\ RawEncodesClaim
     /\ \E i \in 1..Len(verRef.types) : verRef.types[i] \in IntPrefixed \cap ArraySuffixed) =>
        verResult.verified

\* the errors that count as rate-limit errors: a SafeApiError with status
\* 429, or one whose message holds 'rate limit' in any case
RateLimitErrors ==
    {e \in RbErrors :
        /\ e.safeApi
        /\ \/ \E i \in 1..Len(e.statusCode) : e.statusCode[i] = 429
           \/ \E i \in 1..(Len(e.message) - 1) :
                  /\ e.message[i] \in {"rate", "Rate", "RATE"}
                  /\ e.message[i + 1] \in {"limit", "Limit", "LIMIT"}}

\* the failed attempts that were followed by a wait: all of them while the
\* loop goes on, all but the last once an error was rethrown
Retried ==
    IF rbPc = "done" /\ rbLog # <<>> THEN Len(rbLog) - 1 ELSE Len(rbLog)

RECURSIVE Doubled(_, _)
Doubled(n, times) == IF times = 0 THEN n ELSE Doubled(n + n, times - 1)

RetryDiscipline ==
    /\ Len(rbLog) + (IF rbPc = "awaitFn" THEN 1 ELSE 0) <= rbMaxRetries + 1
    /\ \A i \in 1..Retried :
           rbLog[i].how = "rejected" /\ rbLog[i].error \in RateLimitErrors /\ i <= rbMaxRetries
    /\ (rbPc = "done" /\ rbLog # <<>>) =>
           LET last == rbLog[Len(rbLog)]
           IN IF last.how = "resolved" THEN rbOutcome.kind = "returned"
              ELSE /\ rbOutcome = [kind |-> "threw", error |-> last.error]
                   /\ last.error \notin RateLimitErrors \/ Len(rbLog) = rbMaxRetries + 1
    /\ rbWaits = [k \in 1..Retried |-> Doubled(rbInitialDelay, k - 1)]
    /\ rbHasOnRetry =>
           /\ Len(rbNotified) = Retried
           /\ \A k \in 1..Retried : rbNotified[k].delay = rbWaits[k] /\ rbNotified[k].attempt = k

\* C28: retryWithBackoff(fn, maxRetries, initialDelay, onRetry) calls fn at
\* most maxRetries + 1 times and always finishes: a success returns at
\* once; an error that is not a rate-limit error is rethrown after the
\* first failing attempt; a rate-limit error on attempt k < maxRetries
\* makes one onRetry call and one wait of initialDelay * 2^k before the
\* next attempt, and on the last attempt it is rethrown
C28_BoundedRetries ==
    /\ []RetryDiscipline
    /\ <>(rbPc = "done")

C28_Witness ==
    /\ rbPc = "done"
    /\ rbMaxRetries = 3
    /\ rbHasOnRetry
    /\ Len(rbLog) = 4
    /\ rbOutcome.kind = "threw"
    /\ rbWaits = <<1000, 2000, 4000>>
    /\ Len(rbNotified) = 3

\* the transaction the route parameters select
CurrentTx == selectTx(ResultsFor(taRoute.nonce), taRoute.safeTxHashParam)

\* every run has finished and the view shows the analysis, not the loading
\* or the error screen
AnalysisShown ==
    /\ InFlight(taRuns) = {}
    /\ ~taLoading
    /\ taError = <<>>

\* C29: in the TransactionAnalysis view, after any sequence of route
\* changes, once an analysis run finishes without error every displayed
\* derived result (customDecoded, multiSendTxs, multiSendVerification,
\* apiDecodedVerification) was computed from the currently selected
\* transaction; no result of a transaction analyzed before stays on
\* display. Stated for runs that follow one another, each started after
\* the one before had finished
C29_ResultsOfCurrentTransaction ==
    (AnalysisShown /\ \A i \in 1..Len(taRuns) : ~taRuns[i].overlapped) =>
        \A result \in {taCustomDecoded, taMultiSendTxs, taMultiSendVerification,
                        taApiDecodedVerification} :
            result.isNull \/ result.of = CurrentTx.safeTxHash

\* C30: when the route parameters change while an earlier fetchAndAnalyze
\* run is still awaiting the network, then after both runs have completed
\* the displayed transaction, hashes and security verdict are those of the
\* latest parameters: a late completion of the earlier run never overwrites
\* what the later run wrote
C30_LatestRunWins ==
    (AnalysisShown /\ \E i \in 1..Len(taRuns) : taRuns[i].overlapped) =>
        /\ taTransaction = CurrentTx
        /\ taHashes = Computed(CurrentTx)
        /\ taSecurity = Computed(CurrentTx)

====
